---- MODULE Spec2Model ----
(***************************************************************************)
(* Verification model of the web automation test engine.                   *)
(*                                                                         *)
(*  SpecWalk   - hierarchy walker (TestEngine.runYamlListTests,            *)
(*               executeYamlTestNode, executeTestCase) driving the test    *)
(*               case runner (TestExecutor.executeTestCase) over a forest  *)
(*               of test nodes that share one page.                        *)
(*  SpecSession- the same walker with scenarios that change the page.      *)
(*  SpecRun    - the test case runner at step level                        *)
(*               (TestExecutor.executeTestCase, executeSteps) with the     *)
(*               radio step of the action layer.                           *)
(*  SpecRunPhases - the same runner on test cases without radio steps and  *)
(*               with several declared assertions.                         *)
(*  SpecRunKinds - the same runner on test cases of one step whose step    *)
(*               and submit step may be of a kind the engine does not know.*)
(*  SpecCheckbox - the checkbox step of the action layer applied           *)
(*               repeatedly to one control.                                *)
(*  SpecDialog - the click+dialog protocols (DialogOrchestrator,           *)
(*               ActionHandler.executeStepWithDialog and                   *)
(*               executeStepWithMultipleDialogs) against a page whose      *)
(*               click may open a dialog, with the timeouts of the waits,  *)
(*               and the dialog-only step (ActionHandler.handleDialog).    *)
(*  SpecDialogLive - SpecDialog under the fairness of the event loop.      *)
(*  SpecSelect - the select step of the action layer.                      *)
(*  SpecClick  - the click step: findElement and the click executors with  *)
(*               their navigation wait.                                    *)
(*  SpecMulti  - the multi-dialog flows with several declared dialogs     *)
(*               (ActionHandler.executeStepWithMultipleDialogs,            *)
(*               DialogOrchestrator.executeWithMultipleDialogs).           *)
(***************************************************************************)
EXTENDS Integers, Sequences, FiniteSets, TLC

(***************************************************************************)
(* Bounds                                                                  *)
(***************************************************************************)
MaxNodes == 3      \* number of test nodes in the forest
MaxPages == 2      \* pages are 0 (the blank start page) .. MaxPages

Nodes == 1..MaxNodes
Names == {"A", "B"}

VARIABLES
  parentOf,      \* walker: parentOf[n] = parent node of n, 0 for a root-level node
  nameOf,        \* walker: nameOf[n] = testNode.name (= testNode.scenario.name)
  cfg,           \* effective configuration (execution.*, screenshots.*)
  pageChoices,   \* pages the scenarios of this run point to or lead to
  rootsLeft,     \* walker: root nodes the for-loop of runYamlListTests has not reached
  stack,         \* walker: call stack of executeYamlTestNode activations
  testResults,   \* TestEngine.testResults
  execLog,       \* history: the runner invocations (node, outcome), in order
  lastRun,       \* history: page facts of the latest runner invocation
  returned,      \* history: returned[n] = what executeYamlTestNode returned for n
  browser,       \* BrowserManager: "none" | "launched"
  validation,    \* YamlValidator on the file of the run: "pending" | "passed" | "failed"
  url,           \* the page's current URL
  phase          \* "walking" | "reported"

VARIABLES
  scenario,      \* runner: the test case: steps, the radio step's fields, the control
  actionHandler, \* runner: the radio implementation the action layer dispatches to
  rpc,           \* runner: position in TestExecutor.executeTestCase
  si,            \* runner: loop index i of executeSteps (0-based, as in the code)
  thrown,        \* runner: the error in flight, "none" if none
  testResult,    \* runner: the testResult object of executeTestCase
  calls,         \* history: calls of executeSteps into the action handler
  radioChecked,  \* page: the radio control is selected
  effects        \* history: executeSubmit / assertions entered, page actions of the submit

walkVars == <<parentOf, nameOf, pageChoices, rootsLeft, stack, testResults,
              execLog, lastRun, returned, browser, validation, url, phase>>

runVars == <<scenario, actionHandler, rpc, si, thrown, testResult, calls,
             radioChecked, effects>>

VARIABLES
  boxStep,       \* checkbox: the step (implementation, value, waitForNavigation)
  boxPage,       \* checkbox: what the page does when the control changes
  boxChecked,    \* checkbox: the control's checked state
  applied,       \* history: number of applications of the step
  afterFirst,    \* history: the checked state the first application left
  boxErr         \* checkbox: the error the latest application threw

boxVars == <<boxStep, boxPage, boxChecked, applied, afterFirst, boxErr>>

VARIABLES
  dv,              \* dialog: the protocol variant in use
  dpage,           \* dialog: what the page does on the click
  dialogStep,      \* dialog: the declared dialog step
  dpc,             \* dialog: the coordinator's position in its protocol
  dout,            \* dialog: "running", "ok", or the error the coordinator threw
  dialogPromise,   \* dialog: the one-shot page.waitForEvent("dialog")
  waitLeft,        \* dialog: time left before that wait times out
  dialogHandlerOn, \* dialog: a standing handler is registered (page.on)
  clickPromise,    \* dialog: the click: "none", "issued", "dispatched", "done", "timedout"
  dialog,          \* dialog: "none", "open", "accepted", "dismissed", "autoDismissed"
  dialogCount,     \* dialog: dialogs the standing handler has taken
  armedAtIssue,    \* history: a wait or handler was registered when the click was issued
  pollParity,      \* dialog: parity of the rounds of the orchestrator's poll loop
  promptText       \* dialog: the text the dialog was answered with, "none" if none

dlgVars == <<dv, dpage, dialogStep, dpc, dout, dialogPromise, waitLeft,
             dialogHandlerOn, clickPromise, dialog, dialogCount, armedAtIssue,
             pollParity, promptText>>

VARIABLES
  selVariant,    \* select: the implementation the step is dispatched to
  selStep,       \* select: the step (selectBy, value, verifyValue)
  selOptions,    \* select: the control's options, in document order
  selValue,      \* select: the control's current value
  selErr,        \* select: the error the step threw, "none" if none
  selDone        \* select: the step has been executed

selVars == <<selVariant, selStep, selOptions, selValue, selErr, selDone>>

VARIABLES
  locator,       \* click: the findElement in use ("ElementLocator" | "ActionHandler")
  clickImpl,     \* click: the click executor the step is dispatched to
  clickStep,     \* click: [by, waitForNavigation] and the pair's dialog-step flags
  clickPage,     \* click: [present, navigates]: element on the page; its click navigates
  cpc,           \* click: position in the step ("find", then the executor's script)
  cout,          \* click: "running", "ok" or the error thrown
  elementWait,   \* click: locator.waitFor was started
  navWait,       \* click: page.waitForNavigation: "none" | "armed" | "observed"
  clicked,       \* click: element.click() has run
  postWaited     \* click: the declared postNavigationWait has been applied

clkVars == <<locator, clickImpl, clickStep, clickPage, cpc, cout, elementWait, navWait, clicked,
            postWaited>>

VARIABLES
  mulImpl,       \* multi-dialog: the flow in use, one of MultiDialogVariants
  dialogConfigs, \* multi-dialog: the declared dialog steps [dialogType, action]
  mulPage,       \* multi-dialog: [dialogs, blocks]: types the click opens in turn
  events,        \* multi-dialog: the dialog events seen [type, config, res]
  handled,       \* multi-dialog: the flow's local dialogCount
  mulClick,      \* multi-dialog: the click: "none", "pending", "done", "timeout"
  mulWait,       \* multi-dialog: rounds of wait(100) left to the bounded poll
  mulHandlerOn,  \* multi-dialog: the dialog listener is registered on the page
  mulOut         \* multi-dialog: "running", "ok" or the error thrown

mulVars == <<mulImpl, dialogConfigs, mulPage, events, handled, mulClick, mulWait, mulHandlerOn, mulOut>>

nonWalkVars == <<runVars, boxVars, dlgVars, selVars, clkVars, mulVars>>

nonRunVars == <<boxVars, dlgVars, selVars, clkVars, mulVars>>

nonBoxVars == <<cfg, walkVars, runVars, dlgVars, selVars, clkVars, mulVars>>

nonDlgVars == <<cfg, walkVars, runVars, boxVars, selVars, clkVars, mulVars>>

nonSelVars == <<cfg, walkVars, runVars, boxVars, dlgVars, clkVars, mulVars>>

nonClkVars == <<cfg, walkVars, runVars, boxVars, dlgVars, selVars, mulVars>>

nonMulVars == <<cfg, walkVars, runVars, boxVars, dlgVars, selVars, clkVars>>

vars == <<cfg, walkVars, runVars, boxVars, dlgVars, selVars, clkVars, mulVars>>

\* The multi-dialog component at rest.
MulIdle ==
  /\ mulImpl = "none"
  /\ dialogConfigs = <<>>
  /\ mulPage = [dialogs |-> <<>>, blocks |-> FALSE]
  /\ events = <<>>
  /\ handled = 0
  /\ mulClick = "none"
  /\ mulWait = 0
  /\ mulHandlerOn = FALSE
  /\ mulOut = "idle"

\* The click component at rest.
ClkIdle ==
  /\ locator = "none"
  /\ clickImpl = "none"
  /\ clickStep = [by |-> "css", waitForNavigation |-> FALSE,
                  dialogWaitForNavigation |-> FALSE, postNavigationWait |-> FALSE]
  /\ clickPage = [present |-> FALSE, navigates |-> FALSE]
  /\ cpc = 0
  /\ cout = "idle"
  /\ elementWait = FALSE
  /\ navWait = "none"
  /\ clicked = FALSE
  /\ postWaited = FALSE

\* The select component at rest.
SelIdle ==
  /\ selVariant = "none"
  /\ selStep = [selectBy |-> "value", value |-> "", verifyValue |-> FALSE]
  /\ selOptions = <<>>
  /\ selValue = ""
  /\ selErr = "none"
  /\ selDone = FALSE

\* The dialog component at rest.
DlgIdle ==
  /\ dv = "none"
  /\ dpage = [opens |-> FALSE, blocks |-> FALSE, type |-> "alert"]
  /\ dialogStep = [dialogType |-> "", action |-> "accept", value |-> "undefined"]
  /\ dpc = 1
  /\ dout = "idle"
  /\ dialogPromise = "none"
  /\ waitLeft = 0
  /\ dialogHandlerOn = FALSE
  /\ clickPromise = "none"
  /\ dialog = "none"
  /\ dialogCount = 0
  /\ armedAtIssue = FALSE
  /\ pollParity = 0
  /\ promptText = "none"

\* The checkbox component at rest.
BoxIdle ==
  /\ boxStep = [variant |-> "none", value |-> "undefined", waitForNavigation |-> FALSE]
  /\ boxPage = [onChange |-> "stay", rendered |-> FALSE]
  /\ boxChecked = FALSE
  /\ applied = 0
  /\ afterFirst = FALSE
  /\ boxErr = "none"

\* The runner component at rest (specifications that do not exercise it).
RunIdle ==
  /\ scenario = [steps |-> <<>>, radio |-> [value |-> "", verifyValue |-> FALSE],
                 control |-> "", submit |-> "", assertions |-> 0,
                 submitStep |-> [type |-> "", waitForNavigation |-> FALSE]]
  /\ actionHandler = "none"
  /\ rpc = "idle"
  /\ si = 0
  /\ thrown = "none"
  /\ testResult = [status |-> "pending", steps |-> <<>>, error |-> "none",
                   screenshots |-> 0]
  /\ calls = <<>>
  /\ radioChecked = FALSE
  /\ effects = [submits |-> 0, asserts |-> 0, pageActs |-> 0]

(***************************************************************************)
(* Helpers on the node forest                                              *)
(***************************************************************************)
RECURSIVE SortedSeq(_)
SortedSeq(S) ==
  IF S = {} THEN <<>>
  ELSE LET m == CHOOSE x \in S : \A y \in S : x <= y
       IN <<m>> \o SortedSeq(S \ {m})

\* testNode.children, in declared order
\* Variant: the child loop runs over the children in reverse order
Children_Reversed(n) ==
  LET kids == SortedSeq({m \in Nodes : parentOf[m] = n})
  IN  [k \in 1..Len(kids) |-> kids[Len(kids) + 1 - k]]

Children(n) == SortedSeq({m \in Nodes : parentOf[m] = n})

RECURSIVE IsAncestor(_, _)
\* a is a proper ancestor of d
IsAncestor(a, d) ==
  IF parentOf[d] = 0 THEN FALSE
  ELSE parentOf[d] = a \/ IsAncestor(a, parentOf[d])

Last(s) == s[Len(s)]
Front(s) == SubSeq(s, 1, Len(s) - 1)

(***************************************************************************)
(* Test case runner: TestExecutor.executeTestCase                          *)
(***************************************************************************)
Stages == {"nav", "body", "ok"}

\* Variant: the catch block leaves testResult.status as initialised
TestExecutor_executeTestCase_StatusNotSet(failAt, shotOk) ==
  IF failAt = "ok"
    THEN [threw |-> FALSE, status |-> "passed", error |-> "none"]
  ELSE IF cfg.captureOnFailure /\ ~shotOk
    THEN [threw |-> TRUE, status |-> "pending", error |-> "screenshot"]
  ELSE IF cfg.stopOnFailure
    THEN [threw |-> TRUE, status |-> "pending", error |-> "test"]
  ELSE [threw |-> FALSE, status |-> "pending", error |-> "test"]

\* Outcome of one runner invocation.  failAt is the stage whose operation
\* raised ("nav": page.goto, "body": a step, the submit or an assertion,
\* "ok": none); shotOk tells whether the failure screenshot of the catch block
\* could be taken.  error is the message of the error recorded or thrown.
TestExecutor_executeTestCase(failAt, shotOk) ==
  IF failAt = "ok"
    THEN [threw |-> FALSE, status |-> "passed", error |-> "none"]
  ELSE IF cfg.captureOnFailure /\ ~shotOk
    THEN [threw |-> TRUE, status |-> "failed", error |-> "screenshot"]
  ELSE IF cfg.stopOnFailure
    THEN [threw |-> TRUE, status |-> "failed", error |-> "test"]
  ELSE [threw |-> FALSE, status |-> "failed", error |-> "test"]

\* Number of page.goto calls of one invocation: navigateToTestUrl is entered
\* only when skipNavigation is false, and calls goto when a target URL exists.
navigateToTestUrl_gotos(skipNav, target) ==
  IF ~skipNav /\ target # 0 THEN 1 ELSE 0

\* URL the page shows when the first step starts (-1: no step ever starts)
UrlAtFirstStep(skipNav, target, failAt) ==
  IF failAt = "nav" THEN -1
  ELSE IF navigateToTestUrl_gotos(skipNav, target) = 1 THEN target
  ELSE url

\* URL the page shows when the invocation ends: the steps and the submit may
\* move the page to `moved`.
RunnerEndUrl(failAt, moved) ==
  IF failAt = "nav" THEN url ELSE moved

\* The environment's choices one runner invocation can meet
RunnerInputs(skipNav) ==
  {c \in [failAt : Stages, shotOk : BOOLEAN, target : {0} \cup pageChoices,
          moved : pageChoices] :
     /\ c.failAt = "nav" => navigateToTestUrl_gotos(skipNav, c.target) = 1
     /\ (c.failAt = "ok" \/ ~cfg.captureOnFailure) => c.shotOk
     /\ skipNav => c.target = 0}

\* Variant: children are navigated like root-level nodes
ChildSkipNavigation_Navigates == FALSE

\* skipNavigation argument the walker passes for a child node
ChildSkipNavigation == TRUE

(***************************************************************************)
(* Walker                                                                  *)
(***************************************************************************)
Frame(n, skip) == [node |-> n, skipNav |-> skip, pc |-> "test", k |-> 1, endUrl |-> -1]

Top == Last(stack)

\* Variant: the sibling loop stops after any child failure, whatever the setting
ReturnFrom_AlwaysBreaks(stk, r) ==
  LET rest == Front(stk)
  IN IF rest = <<>> THEN rest
     ELSE LET p == Last(rest)
              kids == Children(p.node)
              k2 == IF ~r THEN Len(kids) + 1 ELSE p.k + 1
          IN Front(rest) \o <<[p EXCEPT !.k = k2]>>

\* executeYamlTestNode returns r: the activation is popped and the caller
\* (the child loop of the parent activation, if any) decides whether to go on.
ReturnFrom(stk, r) ==
  LET rest == Front(stk)
  IN IF rest = <<>> THEN rest
     ELSE LET p == Last(rest)
              kids == Children(p.node)
              k2 == IF ~r /\ cfg.stopOnChildFailure THEN Len(kids) + 1 ELSE p.k + 1
          IN Front(rest) \o <<[p EXCEPT !.k = k2]>>

\* History record of one runner invocation
Ran(n, out) == [node |-> n, passed |-> out.status = "passed", threw |-> out.threw]

\* Page facts of the invocation for the activation on top of the stack
RunFacts(c) ==
  [node |-> Top.node, skipNav |-> Top.skipNav,
   gotos |-> navigateToTestUrl_gotos(Top.skipNav, c.target),
   prevEnd |-> lastRun.endUrl,
   parentEnd |-> IF Len(stack) > 1 THEN stack[Len(stack) - 1].endUrl ELSE -1,
   firstStepUrl |-> UrlAtFirstStep(Top.skipNav, c.target, c.failAt),
   endUrl |-> RunnerEndUrl(c.failAt, c.moved)]

NoRun == [node |-> 0, skipNav |-> FALSE, gotos |-> 0, prevEnd |-> 0,
          parentEnd |-> -1, firstStepUrl |-> -1, endUrl |-> 0]

\* main: engine.initialize() loads the configuration and launches the browser.
Initialize ==
  /\ phase = "new"
  /\ browser' = "launched"
  /\ phase' = "initialized"
  /\ UNCHANGED <<parentOf, nameOf, returned, validation, cfg, pageChoices, rootsLeft, stack,
                 testResults, execLog, lastRun, url>>
  /\ UNCHANGED nonWalkVars

\* main: engine.runTests(path) -> runYamlTests: the file is validated; a
\* ValidationError is rethrown and ends runTests and main.
RunYamlTests ==
  /\ phase = "initialized"
  /\ \E valid \in BOOLEAN :
       /\ validation' = IF valid THEN "passed" ELSE "failed"
       /\ phase' = IF valid THEN "walking" ELSE "fatal"
  /\ UNCHANGED <<parentOf, nameOf, returned, browser, cfg, pageChoices, rootsLeft, stack,
                 testResults, execLog, lastRun, url>>
  /\ UNCHANGED nonWalkVars

\* Variant: the loop over the root nodes does not await the walk of a node
\* before it starts the next one.
RunRoot_NotAwaited ==
  /\ phase = "walking"
  /\ rootsLeft # <<>>
  /\ stack' = stack \o <<Frame(Head(rootsLeft), FALSE)>>
  /\ rootsLeft' = Tail(rootsLeft)
  /\ UNCHANGED <<parentOf, nameOf, browser, validation, returned, cfg, pageChoices, testResults, execLog, lastRun, url, phase>>
  /\ UNCHANGED nonWalkVars

\* runYamlListTests: for (const testNode of testNodes) executeYamlTestNode(testNode, 0)
RunRoot ==
  /\ phase = "walking"
  /\ stack = <<>>
  /\ rootsLeft # <<>>
  /\ stack' = <<Frame(Head(rootsLeft), FALSE)>>
  /\ rootsLeft' = Tail(rootsLeft)
  /\ UNCHANGED <<parentOf, nameOf, browser, validation, returned, cfg, pageChoices, testResults, execLog, lastRun, url, phase>>
  /\ UNCHANGED nonWalkVars

\* The runner returns a result; TestEngine.executeTestCase appends it.
NodeTestReturns ==
  /\ phase = "walking"
  /\ stack # <<>>
  /\ Top.pc = "test"
  /\ \E c \in RunnerInputs(Top.skipNav) :
       LET out == TestExecutor_executeTestCase(c.failAt, c.shotOk)
           n == Top.node
           endUrl == RunnerEndUrl(c.failAt, c.moved)
       IN /\ ~out.threw
          /\ testResults' = Append(testResults,
                [name |-> nameOf[n], status |-> out.status, error |-> out.error,
                 node |-> n, shots |-> 0, hierarchyLevel |-> Len(stack) - 1])
          /\ execLog' = Append(execLog, Ran(n, out))
          /\ lastRun' = RunFacts(c)
          /\ url' = endUrl
          /\ stack' = IF out.status # "passed"
                        THEN ReturnFrom(stack, FALSE)
                        ELSE Front(stack) \o
                               <<[Top EXCEPT !.pc = "children", !.endUrl = endUrl]>>
          /\ returned' = IF out.status # "passed"
                           THEN [returned EXCEPT ![n] = "false"] ELSE returned
  /\ UNCHANGED <<parentOf, nameOf, browser, validation, cfg, pageChoices, rootsLeft, phase>>
  /\ UNCHANGED nonWalkVars

\* Index of the first result with the given name, 0 when there is none
FindByName(results, nm) ==
  IF \E i \in 1..Len(results) : results[i].name = nm
    THEN CHOOSE i \in 1..Len(results) :
           /\ results[i].name = nm
           /\ \A j \in 1..(i - 1) : results[j].name # nm
    ELSE 0

\* Catch block of executeYamlTestNode: result list after the runner threw
\* for node n with `shots` failure screenshots taken by the walker.  The
\* record it pushes has name, status, error and screenshots only: no steps,
\* hierarchyLevel (-1 here) or skippedNavigation.
WalkerCatch(results, n, err, shots) ==
  LET i == FindByName(results, nameOf[n])
  IN IF i # 0
       THEN [results EXCEPT ![i].shots = @ + shots]
       ELSE Append(results,
              [name |-> nameOf[n], status |-> "failed", error |-> err,
               node |-> n, shots |-> shots, hierarchyLevel |-> -1])

\* Variant: the walker lets the runner's error through; runYamlListTests and
\* runTests end with it and the report is not generated.
NodeTestThrows_Rethrows ==
  /\ phase = "walking"
  /\ stack # <<>>
  /\ Top.pc = "test"
  /\ \E c \in RunnerInputs(Top.skipNav) :
       LET out == TestExecutor_executeTestCase(c.failAt, c.shotOk)
       IN /\ out.threw
          /\ execLog' = Append(execLog, Ran(Top.node, out))
          /\ lastRun' = RunFacts(c)
          /\ url' = RunnerEndUrl(c.failAt, c.moved)
  /\ stack' = <<>>
  /\ phase' = "aborted"
  /\ UNCHANGED <<parentOf, nameOf, browser, validation, returned, cfg, pageChoices, rootsLeft, testResults>>
  /\ UNCHANGED nonWalkVars

\* The runner throws; executeYamlTestNode catches and returns false.
NodeTestThrows ==
  /\ phase = "walking"
  /\ stack # <<>>
  /\ Top.pc = "test"
  /\ \E c \in RunnerInputs(Top.skipNav), wshotOk \in BOOLEAN :
       LET out == TestExecutor_executeTestCase(c.failAt, c.shotOk)
           n == Top.node
           shots == IF cfg.captureOnFailure /\ wshotOk THEN 1 ELSE 0
       IN /\ out.threw
          /\ testResults' = WalkerCatch(testResults, n, out.error, shots)
          /\ execLog' = Append(execLog, Ran(n, out))
          /\ lastRun' = RunFacts(c)
          /\ url' = RunnerEndUrl(c.failAt, c.moved)
          /\ stack' = ReturnFrom(stack, FALSE)
          /\ returned' = [returned EXCEPT ![n] = "false"]
  /\ UNCHANGED <<parentOf, nameOf, browser, validation, cfg, pageChoices, rootsLeft, phase>>
  /\ UNCHANGED nonWalkVars

\* Child loop: executeYamlTestNode(childTest, level + 1, true)
DescendChild ==
  /\ phase = "walking"
  /\ stack # <<>>
  /\ Top.pc = "children"
  /\ Top.k <= Len(Children(Top.node))
  /\ stack' = stack \o <<Frame(Children(Top.node)[Top.k], ChildSkipNavigation)>>
  /\ UNCHANGED <<parentOf, nameOf, browser, validation, returned, cfg, pageChoices, rootsLeft, testResults, execLog,
                 lastRun, url, phase>>
  /\ UNCHANGED nonWalkVars

\* Child loop over (or no children): return testPassed
NodeDone ==
  /\ phase = "walking"
  /\ stack # <<>>
  /\ Top.pc = "children"
  /\ Top.k > Len(Children(Top.node))
  /\ stack' = ReturnFrom(stack, TRUE)
  /\ returned' = [returned EXCEPT ![Top.node] = "true"]
  /\ UNCHANGED <<parentOf, nameOf, browser, validation, cfg, pageChoices, rootsLeft, testResults, execLog,
                 lastRun, url, phase>>
  /\ UNCHANGED nonWalkVars

\* runTests: reportGenerator.generate(this.testResults) after the walk
GenerateReport ==
  /\ phase = "walking"
  /\ stack = <<>>
  /\ rootsLeft = <<>>
  /\ phase' = "reported"
  /\ UNCHANGED <<parentOf, nameOf, browser, validation, returned, cfg, pageChoices, rootsLeft, stack, testResults,
                 execLog, lastRun, url>>
  /\ UNCHANGED nonWalkVars

Configs ==
  [stopOnFailure : BOOLEAN, stopOnChildFailure : BOOLEAN, captureOnFailure : BOOLEAN]

Forests == {f \in [Nodes -> 0..MaxNodes] : \A n \in Nodes : f[n] < n}

InitWalkCommon ==
  /\ MulIdle
  /\ ClkIdle
  /\ SelIdle
  /\ parentOf \in Forests
  /\ rootsLeft = SortedSeq({n \in Nodes : parentOf[n] = 0})
  /\ stack = <<>>
  /\ testResults = <<>>
  /\ execLog = <<>>
  /\ lastRun = NoRun
  /\ returned = [n \in Nodes |-> "none"]
  /\ browser = "none"
  /\ validation = "pending"
  /\ url = 0
  /\ phase = "new"
  /\ RunIdle
  /\ BoxIdle
  /\ DlgIdle

\* Runs whose scenarios all stay on one page; names and configuration vary.
\* Names are interchangeable, so the first node's name is fixed.
InitWalk ==
  /\ InitWalkCommon
  /\ nameOf \in {f \in [Nodes -> Names] : f[1] = "A"}
  /\ cfg \in Configs
  /\ pageChoices = {1}

\* Runs whose scenarios point to and lead to any page; failure screenshots,
\* which do not touch the page, are off and all nodes share one name.
InitSession ==
  /\ InitWalkCommon
  /\ nameOf = [n \in Nodes |-> "A"]
  /\ cfg \in {c \in Configs : ~c.captureOnFailure}
  /\ pageChoices = 1..MaxPages

NextWalk ==
  \/ Initialize
  \/ RunYamlTests
  \/ RunRoot
  \/ NodeTestReturns
  \/ NodeTestThrows
  \/ DescendChild
  \/ NodeDone
  \/ GenerateReport

SpecWalk == InitWalk /\ [][NextWalk]_vars

SpecSession == InitSession /\ [][NextWalk]_vars

(***************************************************************************)
(* Properties of the walker                                                *)
(***************************************************************************)
Executed(n) == \E i \in 1..Len(execLog) : execLog[i].node = n
Pos(n) == CHOOSE i \in 1..Len(execLog) : execLog[i].node = n
OnStack(n) == \E i \in 1..Len(stack) : stack[i].node = n
Subtree(n) == {n} \cup {d \in Nodes : IsAncestor(n, d)}
EntriesOf(S) == {j \in 1..Len(testResults) : testResults[j].node \in S}

\* C1: a node whose own test case ended failed (returned failed or threw)
\* has no executed descendant, and the result list holds exactly one entry
\* for its sub-tree, the node's own.
C1_ParentGatesChildren ==
  \A i \in 1..Len(execLog) :
    ~execLog[i].passed =>
      LET n == execLog[i].node
      IN /\ \A d \in Nodes : IsAncestor(n, d) => ~Executed(d)
         /\ Cardinality(EntriesOf(Subtree(n))) = 1
         /\ EntriesOf({n}) # {}

\* C4 as claimed: a child node is run with skipNavigation, the runner issues
\* no goto for it, and the URL at its first step is the URL at the end of its
\* parent's invocation.
C4_ChildStartsAtParentEnd ==
  (lastRun.node # 0 /\ parentOf[lastRun.node] # 0) =>
    /\ lastRun.skipNav
    /\ lastRun.gotos = 0
    /\ lastRun.firstStepUrl = lastRun.parentEnd

\* C4 amended: a child node is run with skipNavigation, the runner issues no
\* goto for it, and the URL at its first step is the URL at the end of the
\* most recent runner invocation, which is its parent's for a first child.
C4_ChildContinuesOnCurrentPage ==
  (lastRun.node # 0 /\ parentOf[lastRun.node] # 0) =>
    /\ lastRun.skipNav
    /\ lastRun.gotos = 0
    /\ lastRun.firstStepUrl = lastRun.prevEnd
    /\ Children(parentOf[lastRun.node])[1] = lastRun.node =>
         lastRun.firstStepUrl = lastRun.parentEnd

\* C4 witness: a later sibling starts on a page other than the one its parent ended on
C4_Witness ==
  /\ lastRun.node # 0
  /\ parentOf[lastRun.node] # 0
  /\ Children(parentOf[lastRun.node])[1] # lastRun.node
  /\ lastRun.firstStepUrl = lastRun.prevEnd
  /\ lastRun.prevEnd # lastRun.parentEnd

\* C5: with stopOnFailure set, no test case is executed after the first
\* failing one; without it every root-level node is walked.
C5_StopOnFailureAborts ==
  /\ cfg.stopOnFailure =>
       \A i \in 1..Len(execLog) : ~execLog[i].passed => i = Len(execLog)
  /\ (~cfg.stopOnFailure /\ phase = "reported") =>
       \A n \in Nodes : parentOf[n] = 0 => Executed(n)

\* C6: when the runner threw for a node, executeYamlTestNode has returned
\* and the result list holds a failed entry for that node.
C6_WalkerContainment ==
  \A i \in 1..Len(execLog) :
    execLog[i].threw =>
      LET n == execLog[i].node
      IN /\ ~OnStack(n)
         /\ \E j \in EntriesOf({n}) :
              /\ testResults[j].status = "failed"
              /\ testResults[j].name = nameOf[n]

C22_WalkerReturnValue ==
  \A n \in Nodes :
    returned[n] = "true" =>
      \A i \in 1..Len(execLog) : execLog[i].node \in Subtree(n) => execLog[i].passed

\* C23: validation of the file completes before the browser is launched;
\* when validation fails no browser is launched and no test case is run.
C23_ValidationBeforeBrowser ==
  /\ browser # "none" => validation = "passed"
  /\ validation = "failed" => (browser = "none" /\ execLog = <<>>)

WalkIdle ==
  /\ parentOf = [n \in Nodes |-> 0]
  /\ nameOf = [n \in Nodes |-> "A"]
  /\ pageChoices = {1}
  /\ rootsLeft = <<>>
  /\ stack = <<>>
  /\ testResults = <<>>
  /\ execLog = <<>>
  /\ lastRun = NoRun
  /\ returned = [n \in Nodes |-> "none"]
  /\ browser = "none"
  /\ validation = "pending"
  /\ url = 0
  /\ phase = "new"

(***************************************************************************)
(* Test case runner at step level: TestExecutor.executeTestCase and        *)
(* executeSteps, with the radio step of the action layer.                  *)
(***************************************************************************)
MaxSteps == 3      \* steps of a test case

StepTypes == {"click", "dialog", "input", "radio"}

\* RadioActionExecutor is the registry's executor of the refactored action
\* handler; RadioAction is the action class (ActionHandler.handleRadio of the
\* older handler has the same body).
RadioVariants == {"RadioActionExecutor", "RadioAction"}

DeclaredValues == {"", "a"}     \* step.value of a radio step
ControlValues == {"a", "b"}     \* what element.inputValue() reads back

\* JavaScript truthiness of a string.
Truthy(v) == v # ""

\* The radio step: select the control unless it is selected, then verify.
\* The result is the control's state and the error thrown ("none" if none).
RadioExecute(variant, step, checked, actual) ==
  LET verifies == IF variant = "RadioActionExecutor"
                  THEN step.verifyValue /\ Truthy(step.value)
                  ELSE step.verifyValue
  IN  [checked |-> TRUE,
       err |-> IF verifies /\ actual # step.value
               THEN "RadioValueMismatch" ELSE "none"]

StepAt(i) == scenario.steps[i + 1]      \* steps[i], i 0-based

\* executeSteps, the test of the if: a click followed by a dialog.
IsPair(i) ==
  /\ StepAt(i) = "click"
  /\ i + 1 < Len(scenario.steps)
  /\ StepAt(i + 1) = "dialog"

\* "i++; // Skip the next step since we already handled it"
SkipHandled_Forgotten(i) == i

SkipHandled(i) == i + 1

Throw_Swallowed(err) ==
  /\ rpc' = rpc
  /\ thrown' = thrown

Throw(err) ==
  /\ rpc' = "catch"
  /\ thrown' = err

\* try: navigate, or continue on the current page.
RunnerBegin ==
  /\ rpc = "begin"
  /\ \E ok \in BOOLEAN :
       IF ok THEN rpc' = "steps" /\ thrown' = thrown
             ELSE Throw("NavigationFailed")
  /\ UNCHANGED <<cfg, walkVars, nonRunVars, scenario, actionHandler, si, testResult, calls,
                 radioChecked, effects>>

\* executeSteps, one turn of the loop, the pair branch.
ExecuteStepWithDialog ==
  /\ rpc = "steps"
  /\ si < Len(scenario.steps)
  /\ IsPair(si)
  /\ \E ok \in BOOLEAN :
       /\ calls' = Append(calls, [op |-> "executeStepWithDialog", at |-> si + 1,
                                  with |-> si + 2, ok |-> ok,
                                  err |-> IF ok THEN "none" ELSE "DialogStepFailed",
                                  dialogs |-> IF ok THEN 1 ELSE 0])
       /\ IF ok
          THEN /\ testResult' = [testResult EXCEPT !.steps = @ \o <<si + 1, si + 2>>]
               /\ si' = SkipHandled(si) + 1
               /\ UNCHANGED <<rpc, thrown>>
          ELSE /\ Throw("DialogStepFailed")
               /\ UNCHANGED <<testResult, si>>
  /\ UNCHANGED <<cfg, walkVars, nonRunVars, scenario, actionHandler, radioChecked, effects>>

\* ActionHandler.executeStep for one step: the error it throws and the state
\* of the radio control after it.
ExecuteStepOutcomes(type) ==
  IF type = "dialog"
  THEN {[err |-> e, checked |-> radioChecked, dialogs |-> IF e = "none" THEN 1 ELSE 0] :
          e \in {"none", "DialogTimeout"}}
  ELSE {[err |-> "ElementNotFound", checked |-> radioChecked, dialogs |-> 0]} \cup
       { IF type \notin StepTypes
         THEN [err |-> "UnknownStepType", checked |-> radioChecked, dialogs |-> 0]
         ELSE IF type = "radio"
         THEN LET r == RadioExecute(actionHandler, scenario.radio, radioChecked,
                                    scenario.control)
              IN  [err |-> r.err, checked |-> r.checked, dialogs |-> 0]
         ELSE [err |-> "none", checked |-> radioChecked, dialogs |-> 0] }

\* executeSteps, one turn of the loop, the else branch.
ExecuteStep ==
  /\ rpc = "steps"
  /\ si < Len(scenario.steps)
  /\ ~IsPair(si)
  /\ \E out \in ExecuteStepOutcomes(StepAt(si)) :
       /\ calls' = Append(calls, [op |-> "executeStep", at |-> si + 1, with |-> 0,
                                  ok |-> out.err = "none", err |-> out.err,
                                  dialogs |-> out.dialogs])
       /\ radioChecked' = out.checked
       /\ IF out.err = "none"
          THEN /\ testResult' = [testResult EXCEPT !.steps = Append(@, si + 1)]
               /\ si' = si + 1
               /\ UNCHANGED <<rpc, thrown>>
          ELSE /\ Throw(out.err)
               /\ UNCHANGED <<testResult, si>>
  /\ UNCHANGED <<cfg, walkVars, nonRunVars, scenario, actionHandler, effects>>

\* A screenshot of the passing path: taken and recorded, or the error thrown.
Capture(enabled, next) ==
  \E shotOk \in BOOLEAN :
    /\ enabled \/ shotOk
    /\ IF shotOk
       THEN /\ rpc' = next
            /\ thrown' = thrown
            /\ testResult' = [testResult EXCEPT
                                !.screenshots = IF enabled THEN @ + 1 ELSE @]
       ELSE /\ Throw("ScreenshotFailed")
            /\ testResult' = testResult

\* executeSteps has returned: the screenshot before submit.
BeforeSubmitShot ==
  /\ rpc = "steps"
  /\ si >= Len(scenario.steps)
  /\ Capture(cfg.captureBeforeSubmit, "submit")
  /\ UNCHANGED <<cfg, walkVars, nonRunVars, scenario, actionHandler, si, calls, radioChecked,
                 effects>>

\* The submit section as the two YAML parsers build it: parseSubmit of
\* src/parsers returns {steps: [...]}, parseSubmit of lib returns {step: ...}.
SubmitFormats == {"steps", "step"}

\* actionHandler.executeSubmit(testCase.submit, indent), a submit of one click.
\* The refactored handler reads submitConfig.steps.length (a TypeError on the
\* {step} format) and its executeSubmitStep calls this.actionHandler.findElement
\* on a handler that has no actionHandler field (a TypeError on the {steps}
\* format).  The older handler reads submitAction.step.type (a TypeError on
\* the {steps} format) and otherwise finds the element and clicks it.
\* For the submit step `step` = [type, waitForNavigation]: executeSubmitStep's
\* switch throws on a kind it does not know; the older executeSubmit has no
\* default branch: without waitForNavigation a step that is neither click
\* nor input does nothing, with it every non-click step presses Enter.
\* acted: the submit performed an action on the page.
ExecuteSubmit(handler, format, step) ==
  IF handler = "RadioActionExecutor"
  THEN IF format = "steps" /\ step.type \notin {"click", "dialog", "input"}
       THEN {[err |-> "UnknownSubmitAction", acted |-> FALSE]}
       ELSE {[err |-> "TypeError", acted |-> FALSE]}
  ELSE IF format = "steps" THEN {[err |-> "TypeError", acted |-> FALSE]}
  ELSE {[err |-> "SubmitFailed", acted |-> FALSE]} \cup
       ( IF step.waitForNavigation
         THEN {[err |-> e, acted |-> TRUE] : e \in {"none", "NavigationTimeout"}}
         ELSE {[err |-> "none", acted |-> step.type \in {"click", "input"}]} )

Submit ==
  /\ rpc = "submit"
  /\ \E out \in ExecuteSubmit(actionHandler, scenario.submit, scenario.submitStep) :
       /\ effects' = [effects EXCEPT
                        !.submits = IF out.err \in {"TypeError", "UnknownSubmitAction"}
                                    THEN @ ELSE @ + 1,
                        !.pageActs = IF out.acted THEN @ + 1 ELSE @]
       /\ IF out.err = "none" THEN rpc' = "postSubmitWait" /\ thrown' = thrown
                              ELSE Throw(out.err)
  /\ UNCHANGED <<cfg, walkVars, nonRunVars, scenario, actionHandler, si, testResult, calls,
                 radioChecked>>

\* if (testCase.submit.postSubmitWait) await this.wait(...): the wait, when
\* declared, only lets time pass.
PostSubmitWait ==
  /\ rpc = "postSubmitWait"
  /\ rpc' = "afterSubmit"
  /\ UNCHANGED <<cfg, walkVars, nonRunVars, scenario, actionHandler, si, thrown, testResult,
                 calls, radioChecked, effects>>

\* The screenshot after submit.
AfterSubmitShot ==
  /\ rpc = "afterSubmit"
  /\ Capture(cfg.captureAfterSubmit, "assert")
  /\ UNCHANGED <<cfg, walkVars, nonRunVars, scenario, actionHandler, si, calls, radioChecked,
                 effects>>

\* The assertions (executeAssertions: for each declared assertion in turn,
\* await executeAssertion, which throws when it fails), then status "passed"
\* and the return; one turn of the loop, of total turns.
AssertionsLoop(total) ==
  /\ rpc = "assert"
  /\ IF effects.asserts >= total
     THEN /\ rpc' = "returned"
          /\ testResult' = [testResult EXCEPT !.status = "passed"]
          /\ UNCHANGED <<thrown, effects>>
     ELSE /\ effects' = [effects EXCEPT !.asserts = @ + 1]
          /\ \E ok \in BOOLEAN :
               IF ~ok
               THEN Throw("AssertionFailed") /\ testResult' = testResult
               ELSE IF effects.asserts + 1 < total
               THEN UNCHANGED <<rpc, thrown, testResult>>
               ELSE /\ rpc' = "returned"
                    /\ thrown' = thrown
                    /\ testResult' = [testResult EXCEPT !.status = "passed"]
  /\ UNCHANGED <<cfg, walkVars, nonRunVars, scenario, actionHandler, si, calls, radioChecked>>

Assertions_FirstOnly ==
  AssertionsLoop(1)

Assertions ==
  AssertionsLoop(scenario.assertions)

\* catch: the test is failed and the message recorded; the failure
\* screenshot, whose error is not caught; the rethrow under stopOnFailure.
RunnerCatch ==
  /\ rpc = "catch"
  /\ \E shotOk \in BOOLEAN :
       /\ cfg.captureOnFailure \/ shotOk
       /\ testResult' = [testResult EXCEPT
                           !.status = "failed",
                           !.error = thrown,
                           !.screenshots = IF cfg.captureOnFailure /\ shotOk
                                           THEN @ + 1 ELSE @]
       /\ IF ~shotOk
          THEN rpc' = "threw" /\ thrown' = "ScreenshotFailed"
          ELSE IF cfg.stopOnFailure
               THEN rpc' = "threw" /\ thrown' = thrown
               ELSE rpc' = "returned" /\ thrown' = "none"
  /\ UNCHANGED <<cfg, walkVars, nonRunVars, scenario, actionHandler, si, calls, radioChecked,
                 effects>>

RECURSIVE SeqsUpTo(_, _)
\* The sequences over S of length 1..n.
SeqsUpTo(S, n) ==
  IF n = 0 THEN {}
  ELSE LET shorter == SeqsUpTo(S, n - 1)
       IN  {<<x>> : x \in S} \cup shorter \cup
           {Append(q, x) : q \in shorter, x \in S}

HasRadio(steps) == \E k \in 1..Len(steps) : steps[k] = "radio"

\* The test cases: every radio step of a test case carries the same fields
\* and addresses the same control.
Scenarios ==
  {sc \in [steps : SeqsUpTo(StepTypes, MaxSteps),
           radio : [value : DeclaredValues, verifyValue : BOOLEAN],
           control : ControlValues, submit : SubmitFormats, assertions : {1},
           submitStep : {[type |-> "click", waitForNavigation |-> FALSE]}] :
     HasRadio(sc.steps) \/ (sc.radio = [value |-> "a", verifyValue |-> FALSE]
                            /\ sc.control = "a")}

RunConfigs ==
  [stopOnFailure : BOOLEAN, stopOnChildFailure : {FALSE},
   captureOnFailure : BOOLEAN, captureBeforeSubmit : BOOLEAN,
   captureAfterSubmit : BOOLEAN]

InitRun ==
  /\ MulIdle
  /\ ClkIdle
  /\ SelIdle
  /\ WalkIdle
  /\ BoxIdle
  /\ DlgIdle
  /\ cfg \in RunConfigs
  /\ scenario \in Scenarios
  /\ actionHandler \in RadioVariants
  /\ rpc = "begin"
  /\ si = 0
  /\ thrown = "none"
  /\ testResult = [status |-> "pending", steps |-> <<>>, error |-> "none",
                   screenshots |-> 0]
  /\ calls = <<>>
  /\ radioChecked = FALSE
  /\ effects = [submits |-> 0, asserts |-> 0, pageActs |-> 0]

NextRun ==
  \/ RunnerBegin
  \/ ExecuteStepWithDialog
  \/ ExecuteStep
  \/ BeforeSubmitShot
  \/ Submit
  \/ PostSubmitWait
  \/ AfterSubmitShot
  \/ Assertions
  \/ RunnerCatch

SpecRun == InitRun /\ [][NextRun]_vars

MaxAssertions == 2   \* declared assertions of a test case

\* The runner on test cases of click, dialog and input steps with
\* 0..MaxAssertions declared assertions.
InitRunPhases ==
  /\ MulIdle
  /\ ClkIdle
  /\ SelIdle
  /\ WalkIdle
  /\ BoxIdle
  /\ DlgIdle
  /\ cfg \in RunConfigs
  /\ scenario \in [steps : SeqsUpTo(StepTypes \ {"radio"}, MaxSteps),
                   radio : {[value |-> "a", verifyValue |-> FALSE]},
                   control : {"a"}, submit : SubmitFormats,
                   assertions : 0..MaxAssertions,
                   submitStep : {[type |-> "click", waitForNavigation |-> FALSE]}]
  /\ actionHandler \in RadioVariants
  /\ rpc = "begin"
  /\ si = 0
  /\ thrown = "none"
  /\ testResult = [status |-> "pending", steps |-> <<>>, error |-> "none",
                   screenshots |-> 0]
  /\ calls = <<>>
  /\ radioChecked = FALSE
  /\ effects = [submits |-> 0, asserts |-> 0, pageActs |-> 0]

SpecRunPhases == InitRunPhases /\ [][NextRun]_vars

\* The runner on test cases of fewer than MaxSteps steps whose steps and
\* submit step may be of a kind ("hover") that no executor is registered for.
InitRunKinds ==
  /\ MulIdle
  /\ ClkIdle
  /\ SelIdle
  /\ WalkIdle
  /\ BoxIdle
  /\ DlgIdle
  /\ cfg \in RunConfigs
  /\ \E n \in 1..(MaxSteps - 1) :
       scenario \in [steps : [1..n -> {"click", "dialog", "input", "hover"}],
                     radio : {[value |-> "a", verifyValue |-> FALSE]},
                     control : {"a"}, submit : SubmitFormats, assertions : {1},
                     submitStep : [type : {"click", "input", "hover"},
                                   waitForNavigation : BOOLEAN]]
  /\ actionHandler \in RadioVariants
  /\ rpc = "begin"
  /\ si = 0
  /\ thrown = "none"
  /\ testResult = [status |-> "pending", steps |-> <<>>, error |-> "none",
                   screenshots |-> 0]
  /\ calls = <<>>
  /\ radioChecked = FALSE
  /\ effects = [submits |-> 0, asserts |-> 0, pageActs |-> 0]

SpecRunKinds == InitRunKinds /\ [][NextRun]_vars

C30_PhaseOrder ==
  /\ [](/\ \A i, j \in 1..Len(calls) : i < j => calls[i].at < calls[j].at
        /\ (effects.submits >= 1 \/ rpc \in {"submit", "postSubmitWait", "afterSubmit", "assert"})
             => (si >= Len(scenario.steps)
                 /\ testResult.steps = [k \in 1..Len(scenario.steps) |-> k])
        /\ (effects.asserts >= 1 \/ rpc = "assert") => effects.submits = 1
        /\ testResult.status = "passed" =>
             (rpc = "returned" /\ effects.submits = 1
              /\ effects.asserts = scenario.assertions))
  /\ [][rpc' # rpc =>
          <<rpc, rpc'>> \in
            {<<"begin", "steps">>, <<"steps", "submit">>, <<"submit", "postSubmitWait">>,
             <<"postSubmitWait", "afterSubmit">>, <<"afterSubmit", "assert">>,
             <<"assert", "returned">>, <<"catch", "returned">>, <<"catch", "threw">>}
            \cup {<<ph, "catch">> :
                    ph \in {"begin", "steps", "submit", "afterSubmit", "assert"}}]_vars
  /\ [][testResult'.screenshots # testResult.screenshots =>
          ( \/ (rpc = "steps" /\ rpc' = "submit" /\ cfg.captureBeforeSubmit)
            \/ (rpc = "afterSubmit" /\ rpc' = "assert" /\ cfg.captureAfterSubmit)
            \/ (rpc = "catch" /\ cfg.captureOnFailure) )]_vars

C30_Witness ==
  /\ rpc = "returned"
  /\ testResult.status = "passed"
  /\ Len(scenario.steps) >= 2
  /\ scenario.assertions = 2
  /\ testResult.screenshots = 2

(***************************************************************************)
(* Properties of the runner                                                *)
(***************************************************************************)
ClickThenDialog(p) ==
  /\ scenario.steps[p] = "click"
  /\ p < Len(scenario.steps)
  /\ scenario.steps[p + 1] = "dialog"

StepsSpanned(c) == IF c.op = "executeStepWithDialog" THEN 2 ELSE 1

\* C8: in executeSteps a click step immediately followed by a dialog step is
\* handed to executeStepWithDialog as one unit and the cursor advances by two,
\* so the dialog step is never executed again on its own and one dialog is
\* resolved for the pair; on success both step numbers are recorded as
\* passed.  Every other step goes alone to executeStep and the cursor
\* advances by one.
C8_ClickDialogPairing ==
  /\ \A k \in 1..Len(calls) :
       LET c == calls[k] IN
         /\ c.at = IF k = 1 THEN 1 ELSE calls[k - 1].at + StepsSpanned(calls[k - 1])
         /\ (c.op = "executeStepWithDialog") <=> ClickThenDialog(c.at)
         /\ c.op = "executeStepWithDialog" =>
              /\ c.with = c.at + 1
              /\ c.dialogs = IF c.ok THEN 1 ELSE 0
              /\ \A j \in 1..Len(calls) : calls[j].at # c.with
         /\ k < Len(calls) => c.ok
  /\ LET n == IF calls = <<>> THEN 0
              ELSE LET c == calls[Len(calls)]
                   IN  IF c.ok THEN c.at + StepsSpanned(c) - 1 ELSE c.at - 1
     IN  testResult.steps = [j \in 1..n |-> j]

\* A test case that passed after a pair and a further step were executed.
C8_Witness ==
  /\ rpc = "returned"
  /\ testResult.status = "passed"
  /\ \E k \in 1..Len(calls) : calls[k].op = "executeStepWithDialog" /\ k < Len(calls)
  /\ \E k \in 1..Len(calls) : calls[k].op = "executeStep" /\ calls[k].at > 1

\* C10: a radio step with verifyValue set whose declared value differs from
\* the value read back from the control fails with a value-mismatch error;
\* the runner marks the test failed, records that error, and neither the
\* submit nor the assertions are run.
C10_RadioValueMismatchFails ==
  \A k \in 1..Len(calls) :
    LET c == calls[k] IN
      ( /\ c.op = "executeStep"
        /\ scenario.steps[c.at] = "radio"
        /\ c.err # "ElementNotFound"
        /\ scenario.radio.verifyValue
        /\ scenario.radio.value # scenario.control )
      => /\ c.err = "RadioValueMismatch"
         /\ effects.submits = 0
         /\ effects.asserts = 0
         /\ rpc \in {"returned", "threw"} =>
              /\ testResult.status = "failed"
              /\ testResult.error = "RadioValueMismatch"

\* C12: a test case of input steps whose steps, submit click and assertions
\* meet no failure of the page (every step call succeeded, no navigation,
\* submit-click, assertion or screenshot failure) ends passed, with one step
\* result per declared step and, when captureAfterSubmit is set, at least
\* one screenshot; the submit phase raises no error of its own.
C12_EndToEndPass ==
  ( /\ rpc \in {"returned", "threw"}
    /\ Len(scenario.steps) >= 1
    /\ \A i \in 1..Len(scenario.steps) : scenario.steps[i] = "input"
    /\ \A k \in 1..Len(calls) : calls[k].ok
    /\ testResult.error \notin {"NavigationFailed", "SubmitFailed", "AssertionFailed",
                                "ScreenshotFailed"}
    /\ thrown # "ScreenshotFailed" )
  => /\ testResult.status = "passed"
     /\ testResult.error = "none"
     /\ Len(testResult.steps) = Len(scenario.steps)
     /\ cfg.captureAfterSubmit => testResult.screenshots >= 1

\* C13: an error while capturing the before-submit or after-submit screenshot
\* never becomes the test's error: no finished test is failed with the
\* capture's error.
C13_CaptureNeverFailsTest ==
  rpc \in {"returned", "threw"} =>
    ~(testResult.status = "failed" /\ testResult.error = "ScreenshotFailed")

\* C14: when a test has failed (for a reason other than a capture) the runner
\* raises only under stopOnFailure and only the original error, never the
\* error of the failure-screenshot capture; the result keeps the original
\* error.
C14_FailureCaptureNeverThrows ==
  ( /\ rpc \in {"returned", "threw"}
    /\ testResult.status = "failed"
    /\ testResult.error # "ScreenshotFailed" )
  => /\ testResult.error # "none"
     /\ rpc = "threw" => (cfg.stopOnFailure /\ thrown = testResult.error)

(***************************************************************************)
(* The checkbox step: CheckboxActionExecutor.execute,                      *)
(* ActionHandler.handleCheckbox and CheckboxAction.execute, applied to one *)
(* control again and again.                                                *)
(***************************************************************************)
MaxApply == 3      \* applications of the step

CheckboxVariants == {"CheckboxActionExecutor", "handleCheckbox", "CheckboxAction"}

\* step.value: absent, a boolean, or a string.
CheckboxValues == {"undefined", "true", "false", "'true'", "'false'"}

\* JavaScript truthiness of step.value: every non-empty string is truthy.
TruthyValue(v) == v \in {"true", "'true'", "'false'"}

\* element.check(): nothing if the control is checked, else a click that
\* checks it.
ElementCheck_Clicks(c) == [checked |-> ~c, clicked |-> TRUE]

ElementCheck(c) == [checked |-> TRUE, clicked |-> ~c]

\* element.uncheck(): nothing if the control is unchecked, else a click.
ElementUncheck(c) == [checked |-> FALSE, clicked |-> c]

\* The page after the call r on the control: a click may make the page
\* reload, and the reloaded page renders the control as boxPage.rendered.
Navigated(r) == r.clicked /\ boxPage.onChange = "reload"

PageAfter(r) == IF Navigated(r) THEN boxPage.rendered ELSE r.checked

\* checkWithNavigation: element.check(), under Promise.all with
\* page.waitForNavigation when the step asks for it.
CheckWithNavigation(c, step) ==
  LET r == ElementCheck(c)
  IN  [checked |-> PageAfter(r),
       err |-> IF step.waitForNavigation /\ ~Navigated(r)
               THEN "NavigationTimeout" ELSE "none"]

Untouched(c) == [checked |-> c, err |-> "none"]

\* ActionHandler.handleCheckbox and CheckboxAction.execute (the same body).
HandleCheckbox(c, step) ==
  IF step.value # "undefined"
  THEN IF TruthyValue(step.value) /\ ~c THEN CheckWithNavigation(c, step)
       ELSE IF ~TruthyValue(step.value) /\ c THEN CheckWithNavigation(c, step)
       ELSE Untouched(c)
  ELSE CheckWithNavigation(c, step)

\* CheckboxActionExecutor.execute
CheckboxExecutorExecute(c, step) ==
  LET desiredValue == step.value \in {"true", "'true'"}
  IN  IF c # desiredValue
      THEN IF step.waitForNavigation
           THEN [checked |-> PageAfter(ElementCheck(c)), err |-> "none"]
           ELSE IF desiredValue
                THEN [checked |-> PageAfter(ElementCheck(c)), err |-> "none"]
                ELSE [checked |-> PageAfter(ElementUncheck(c)), err |-> "none"]
      ELSE Untouched(c)

CheckboxExecute(c, step) ==
  IF step.variant = "CheckboxActionExecutor"
  THEN CheckboxExecutorExecute(c, step)
  ELSE HandleCheckbox(c, step)

\* One application of the checkbox step to the control.
ApplyCheckbox ==
  /\ boxStep.variant # "none"
  /\ applied < MaxApply
  /\ LET out == CheckboxExecute(boxChecked, boxStep)
     IN  /\ boxChecked' = out.checked
         /\ boxErr' = out.err
         /\ afterFirst' = IF applied = 0 THEN out.checked ELSE afterFirst
  /\ applied' = applied + 1
  /\ UNCHANGED <<nonBoxVars, boxStep, boxPage>>

InitCheckbox ==
  /\ MulIdle
  /\ ClkIdle
  /\ SelIdle
  /\ WalkIdle
  /\ RunIdle
  /\ DlgIdle
  /\ cfg \in {c \in RunConfigs : \A f \in DOMAIN c : ~c[f]}
  /\ boxStep \in [variant : CheckboxVariants, value : CheckboxValues,
                  waitForNavigation : BOOLEAN]
  /\ boxPage \in {pg \in [onChange : {"stay", "reload"}, rendered : BOOLEAN] :
                    pg.onChange = "stay" => ~pg.rendered}
  /\ boxChecked \in BOOLEAN
  /\ applied = 0
  /\ afterFirst = boxChecked
  /\ boxErr = "none"

NextCheckbox == ApplyCheckbox

SpecCheckbox == InitCheckbox /\ [][NextCheckbox]_vars

TimeoutTicks == 2      \* execution.actionTimeout, in ticks

DialogVariants ==
  {"executeWithDialog",               \* refactored handler + DialogOrchestrator
   "executeStepWithDialog",           \* ActionHandler, click not awaited
   "executeStepWithDialog_awaited",   \* ActionHandler, older body: click awaited
   "executeStepWithMultipleDialogs",  \* ActionHandler, standing handler
   "executeWithMultipleDialogs",      \* DialogOrchestrator, standing handler
   "handleDialog",                    \* ActionHandler, dialog-only step
   "handleDialog_refactored",         \* refactored handler, dialog-only step
   "executeSubmit",                   \* ActionHandler, submit {step, dialog}
   "executeSubmit_refactored"}        \* refactored handler, submit {steps: [click, dialog]}

\* The coordinator's protocol, statement by statement.
Script(v) ==
  CASE v = "executeWithDialog" ->
         <<"find", "arm", "click", "awaitDialog", "validate", "resolve">>
    [] v = "executeStepWithDialog" ->
         <<"arm", "find", "click", "awaitDialog", "validate", "resolve">>
    [] v = "executeStepWithDialog_awaited" ->
         <<"arm", "find", "click", "awaitClick", "awaitDialog", "validate", "resolve">>
    [] v = "executeStepWithMultipleDialogs" ->
         <<"listen", "find", "click", "awaitClick", "poll", "unlisten">>
    [] v = "executeWithMultipleDialogs" ->
         <<"listen", "click", "awaitClick", "poll", "unlisten">>
    [] v = "handleDialog" ->
         <<"arm", "awaitDialog", "validate", "resolve">>
    [] v = "handleDialog_refactored" ->
         <<"arm", "awaitDialog", "resolve">>
    [] v = "executeSubmit" ->
         <<"arm", "find", "click", "awaitDialog", "validate", "resolve">>
    [] v = "executeSubmit_refactored" ->
         <<"find", "click", "awaitClick", "arm", "awaitDialog", "resolve">>
    [] OTHER -> <<>>

CurStep == IF dout = "running" /\ dpc <= Len(Script(dv)) THEN Script(dv)[dpc] ELSE "end"

\* The next statement; the coordinator returns after the last.
Proceed ==
  /\ dpc' = dpc + 1
  /\ dout' = IF dpc = Len(Script(dv)) THEN "ok" ELSE dout

\* A throw that leaves the standing handler registered.
Fail_NoFinally(err) ==
  /\ dout' = err
  /\ dpc' = dpc
  /\ dialogHandlerOn' = dialogHandlerOn

\* The coordinator throws; the finally block of the multi-dialog protocol
\* removes the standing handler.
Fail(err) ==
  /\ dout' = err
  /\ dpc' = dpc
  /\ dialogHandlerOn' = FALSE

\* The armed dialog wait after d more ticks.
WaitAfter(d) ==
  IF dialogPromise = "armed" /\ waitLeft - d <= 0 THEN "expired" ELSE dialogPromise

LeftAfter(d) ==
  IF dialogPromise = "armed"
  THEN (IF waitLeft - d <= 0 THEN 0 ELSE waitLeft - d)
  ELSE waitLeft

DeclaredResolution == IF dialogStep.action = "accept" THEN "accepted" ELSE "dismissed"

TypeMatches == dialogStep.dialogType = "" \/ dialogStep.dialogType = dpage.type

\* page.waitForEvent("dialog", {timeout: actionTimeout})
ArmDialogWait ==
  /\ CurStep = "arm"
  /\ dialogPromise' = "armed"
  /\ waitLeft' = TimeoutTicks
  /\ Proceed
  /\ UNCHANGED <<nonDlgVars, pollParity, promptText, dv, dpage, dialogStep, dialogHandlerOn, clickPromise,
                 dialog, dialogCount, armedAtIssue>>

\* page.on("dialog", dialogHandler)
RegisterDialogHandler ==
  /\ CurStep = "listen"
  /\ dialogHandlerOn' = TRUE
  /\ Proceed
  /\ UNCHANGED <<nonDlgVars, pollParity, promptText, dv, dpage, dialogStep, dialogPromise, waitLeft,
                 clickPromise, dialog, dialogCount, armedAtIssue>>

\* await findElement(clickStep.selector): the element is visible after d
\* ticks, or not within the timeout.  executeSubmitStep of the refactored
\* handler calls this.actionHandler.findElement, and the handler has no
\* actionHandler field: a TypeError at once.
FindElement ==
  /\ CurStep = "find"
  /\ \E d \in 0..TimeoutTicks :
       /\ dialogPromise' = WaitAfter(d)
       /\ waitLeft' = LeftAfter(d)
       /\ IF dv = "executeSubmit_refactored"
          THEN d = 0 /\ Fail("TypeError")
          ELSE IF d < TimeoutTicks
          THEN Proceed /\ UNCHANGED dialogHandlerOn
          ELSE Fail("ElementNotFound")
  /\ UNCHANGED <<nonDlgVars, pollParity, promptText, dv, dpage, dialogStep, clickPromise, dialog,
                 dialogCount, armedAtIssue>>

\* element.click({timeout: actionTimeout}) is issued.
IssueClick ==
  /\ CurStep = "click"
  /\ clickPromise' = "issued"
  /\ armedAtIssue' = (dialogPromise = "armed" \/ dialogHandlerOn)
  /\ Proceed
  /\ UNCHANGED <<nonDlgVars, pollParity, promptText, dv, dpage, dialogStep, dialogPromise, waitLeft,
                 dialogHandlerOn, dialog, dialogCount>>

\* The standing handler of the multi-dialog protocol on a dialog: the
\* resulting dialog state (a handler that throws leaves the dialog open).
HandlerTakes ==
  IF dialogCount >= 1
  THEN (IF dv = "executeWithMultipleDialogs" THEN "open" ELSE "accepted")
  ELSE IF ~TypeMatches THEN "open"
  ELSE DeclaredResolution

\* The browser: the click reaches the page after d ticks and the page's
\* click handler runs (opening a dialog or not), or the click times out
\* before that.
PageReceivesClick ==
  /\ clickPromise = "issued"
  /\ \E d \in 0..TimeoutTicks :
       /\ waitLeft' = LeftAfter(d)
       /\ IF d = TimeoutTicks
          THEN /\ clickPromise' = "timedout"
               /\ dialogPromise' = WaitAfter(d)
               /\ UNCHANGED <<dialog, dialogCount>>
          ELSE /\ clickPromise' = "dispatched"
               /\ IF ~dpage.opens
                  THEN /\ dialogPromise' = WaitAfter(d)
                       /\ UNCHANGED <<dialog, dialogCount>>
                  ELSE IF WaitAfter(d) = "armed"
                  THEN /\ dialogPromise' = "got"
                       /\ dialog' = "open"
                       /\ UNCHANGED dialogCount
                  ELSE IF dialogHandlerOn
                  THEN /\ dialog' = HandlerTakes
                       /\ dialogCount' = dialogCount + 1
                       /\ dialogPromise' = WaitAfter(d)
                  ELSE /\ dialog' = "autoDismissed"
                       /\ dialogPromise' = WaitAfter(d)
                       /\ UNCHANGED dialogCount
  /\ UNCHANGED <<nonDlgVars, pollParity, promptText, dv, dpage, dialogStep, dpc, dout, dialogHandlerOn,
                 armedAtIssue>>

\* The browser: the page of a dialog-only step opens its dialog by itself
\* while the step's dialog wait is armed.
PageOpensDialog ==
  /\ dv \in {"handleDialog", "handleDialog_refactored"}
  /\ dpage.opens
  /\ dialogPromise = "armed"
  /\ dialogPromise' = "got"
  /\ dialog' = "open"
  /\ UNCHANGED <<nonDlgVars, pollParity, promptText, dv, dpage, dialogStep, dpc, dout, waitLeft, dialogHandlerOn,
                 clickPromise, dialogCount, armedAtIssue>>

\* The browser: the click returns, once no dialog of the page holds it.
ClickCompletes ==
  /\ clickPromise = "dispatched"
  /\ ~(dialog = "open" /\ dpage.blocks)
  /\ clickPromise' = "done"
  /\ UNCHANGED <<nonDlgVars, pollParity, promptText, dv, dpage, dialogStep, dpc, dout, dialogPromise,
                 waitLeft, dialogHandlerOn, dialog, dialogCount, armedAtIssue>>

\* The click's timeout: the dialog that holds the click stays open because
\* the coordinator is waiting for the click or has gone.
ClickTimesOut ==
  /\ clickPromise = "dispatched"
  /\ dialog = "open" /\ dpage.blocks
  /\ CurStep \in {"awaitClick", "end"}
  /\ clickPromise' = "timedout"
  /\ UNCHANGED <<nonDlgVars, pollParity, promptText, dv, dpage, dialogStep, dpc, dout, dialogPromise,
                 waitLeft, dialogHandlerOn, dialog, dialogCount, armedAtIssue>>

\* The dialog wait's timeout, when no dialog can come any more.
DialogWaitExpires ==
  /\ dialogPromise = "armed"
  /\ \/ clickPromise \in {"dispatched", "done", "timedout"}
     \/ CurStep = "end"
     \/ dv \in {"handleDialog", "handleDialog_refactored"}
  /\ dialogPromise' = "expired"
  /\ waitLeft' = 0
  /\ UNCHANGED <<nonDlgVars, pollParity, promptText, dv, dpage, dialogStep, dpc, dout, dialogHandlerOn,
                 clickPromise, dialog, dialogCount, armedAtIssue>>

\* await element.click(...)
AwaitClick ==
  /\ CurStep = "awaitClick"
  /\ clickPromise \in {"done", "timedout"}
  /\ IF clickPromise = "done"
     THEN Proceed /\ UNCHANGED dialogHandlerOn
     ELSE Fail("ClickTimeout")
  /\ UNCHANGED <<nonDlgVars, pollParity, promptText, dv, dpage, dialogStep, dialogPromise, waitLeft,
                 clickPromise, dialog, dialogCount, armedAtIssue>>

\* dialog = await dialogPromise.  Where the rejection is caught, the click is
\* awaited inside a try whose catch wraps whatever was thrown, the "Expected
\* ... dialog did not appear" error of the try block included, into
\* "Click failed and dialog did not appear: <message>".
AwaitDialog ==
  /\ CurStep = "awaitDialog"
  /\ \/ /\ dialogPromise = "got"
        /\ Proceed /\ UNCHANGED dialogHandlerOn
     \/ /\ dialogPromise = "expired"
        /\ dv \notin {"executeWithDialog", "executeStepWithDialog", "executeSubmit"}
        /\ Fail("DialogTimeout")
     \/ /\ dialogPromise = "expired"
        /\ dv \in {"executeWithDialog", "executeStepWithDialog", "executeSubmit"}
        /\ clickPromise \in {"done", "timedout"}
        /\ Fail(IF clickPromise = "done"
                THEN "ClickFailedAndDialogDidNotAppear: ExpectedDialogDidNotAppear"
                ELSE "ClickFailedAndDialogDidNotAppear: ClickTimeout")
  /\ UNCHANGED <<nonDlgVars, pollParity, promptText, dv, dpage, dialogStep, dialogPromise, waitLeft,
                 clickPromise, dialog, dialogCount, armedAtIssue>>

\* if (dialogStep.dialogType && dialog.type() !== dialogStep.dialogType) throw
ValidateDialogType ==
  /\ CurStep = "validate"
  /\ IF TypeMatches
     THEN Proceed /\ UNCHANGED dialogHandlerOn
     ELSE Fail("DialogTypeMismatch")
  /\ UNCHANGED <<nonDlgVars, pollParity, promptText, dv, dpage, dialogStep, dialogPromise, waitLeft,
                 clickPromise, dialog, dialogCount, armedAtIssue>>

\* The text a dialog of the given type is answered with by the variant's
\* resolution: "none" when nothing is entered (dismiss, or not a prompt; the
\* argument of accept has no effect on an alert or confirm).  ActionHandler
\* calls accept(step.value ?? "") on a prompt, the refactored handleDialog
\* accept(step.value || ""), DialogOrchestrator accept() with no argument.
PromptText(v, type, step) ==
  IF step.action # "accept" \/ type # "prompt" THEN "none"
  ELSE IF v = "executeWithDialog" \/ step.value = "undefined" THEN ""
  ELSE step.value

\* dialog.accept(...) / dialog.dismiss()
ResolveDialog ==
  /\ CurStep = "resolve"
  /\ dialog' = DeclaredResolution
  /\ promptText' = PromptText(dv, dpage.type, dialogStep)
  /\ Proceed
  /\ UNCHANGED <<nonDlgVars, pollParity, dv, dpage, dialogStep, dialogPromise, waitLeft,
                 dialogHandlerOn, clickPromise, dialogCount, armedAtIssue>>

\* ActionHandler: while (dialogCount < totalDialogs && elapsed < maxWaitTime)
\* wait(100); if (dialogCount < totalDialogs) throw.
\* DialogOrchestrator: while (dialogCount < totalDialogs) waitForTimeout(100),
\* one more round of which changes nothing but the parity of the rounds.
PollDialogCount ==
  /\ CurStep = "poll"
  /\ IF dialogCount >= 1
     THEN Proceed /\ UNCHANGED <<dialogHandlerOn, pollParity>>
     ELSE IF dv = "executeWithMultipleDialogs"
     THEN pollParity' = 1 - pollParity /\ UNCHANGED <<dpc, dout, dialogHandlerOn>>
     ELSE Fail("DialogCountMismatch") /\ UNCHANGED pollParity
  /\ UNCHANGED <<nonDlgVars, promptText, dv, dpage, dialogStep, dialogPromise, waitLeft,
                 clickPromise, dialog, dialogCount, armedAtIssue>>

\* finally: page.off("dialog", dialogHandler)
RemoveDialogHandler ==
  /\ CurStep = "unlisten"
  /\ dialogHandlerOn' = FALSE
  /\ Proceed
  /\ UNCHANGED <<nonDlgVars, pollParity, promptText, dv, dpage, dialogStep, dialogPromise, waitLeft,
                 clickPromise, dialog, dialogCount, armedAtIssue>>

InitDialog ==
  /\ MulIdle
  /\ ClkIdle
  /\ SelIdle
  /\ WalkIdle
  /\ RunIdle
  /\ BoxIdle
  /\ cfg \in {c \in RunConfigs : \A f \in DOMAIN c : ~c[f]}
  /\ dv \in DialogVariants
  /\ dpage \in {pg \in [opens : BOOLEAN, blocks : BOOLEAN,
                        type : {"alert", "confirm", "prompt"}] :
                  ~pg.opens => (~pg.blocks /\ pg.type = "alert")}
  /\ dialogStep \in [dialogType : {"", "confirm"}, action : {"accept", "dismiss"},
                     value : {"undefined", "Admin"}]
  /\ dpc = 1
  /\ dout = "running"
  /\ dialogPromise = "none"
  /\ waitLeft = 0
  /\ dialogHandlerOn = FALSE
  /\ clickPromise = "none"
  /\ dialog = "none"
  /\ dialogCount = 0
  /\ armedAtIssue = FALSE
  /\ pollParity = 0
  /\ promptText = "none"

NextDialog ==
  \/ ArmDialogWait
  \/ RegisterDialogHandler
  \/ FindElement
  \/ IssueClick
  \/ PageReceivesClick
  \/ PageOpensDialog
  \/ ClickCompletes
  \/ ClickTimesOut
  \/ DialogWaitExpires
  \/ AwaitClick
  \/ AwaitDialog
  \/ ValidateDialogType
  \/ ResolveDialog
  \/ PollDialogCount
  \/ RemoveDialogHandler

SpecDialog == InitDialog /\ [][NextDialog]_vars

\* The event loop runs every continuation that is ready and every timer
\* fires: a protocol step that can be taken is taken.
SpecDialogLive == SpecDialog /\ WF_vars(NextDialog)

(***************************************************************************)
(* Properties of the click+dialog protocols                                *)
(***************************************************************************)
SingleDialogVariants ==
  {"executeWithDialog", "executeStepWithDialog", "executeStepWithDialog_awaited"}

\* C2: in every variant of the single-dialog protocol, when the click opens
\* a dialog of the declared type that holds the click until it is resolved,
\* the coordinator observes the dialog, resolves it as declared and returns
\* successfully: it never waits for the click while the dialog is open, and
\* neither the click nor the dialog wait times out.
C2_DialogRaceObserved ==
  ( /\ dv \in SingleDialogVariants
    /\ dpage.opens /\ dpage.blocks
    /\ TypeMatches
    /\ dialog \notin {"none", "autoDismissed"} )
  => /\ clickPromise # "timedout"
     /\ dialogPromise # "expired"
     /\ CurStep = "awaitClick" => dialog # "open"
     /\ dout \in {"running", "ok"}
     /\ dout = "ok" => dialog = DeclaredResolution

\* C3: in every protocol the dialog wait or the standing handler is
\* registered before the click is issued, so that a dialog the click opens
\* never fires while no wait or handler is armed.
C3_ArmBeforeTrigger ==
  /\ clickPromise # "none" => armedAtIssue
  /\ dialog # "autoDismissed"

\* C15: when the dialog wait of executeWithDialog / executeStepWithDialog
\* has timed out, the coordinator fails only after the click has settled;
\* the click's own error is the reported cause exactly when the click
\* failed, and a click that completed is not reported as failed.
C15_DialogNotTriggeredReport ==
  ( /\ dv \in {"executeWithDialog", "executeStepWithDialog"}
    /\ dialogPromise = "expired"
    /\ dout \notin {"running", "ok", "ElementNotFound"} )
  => /\ clickPromise \in {"done", "timedout"}
     /\ clickPromise = "timedout"
          <=> dout = "ClickFailedAndDialogDidNotAppear: ClickTimeout"
     /\ clickPromise = "done" =>
          dout \notin {"ClickFailedAndDialogDidNotAppear: ExpectedDialogDidNotAppear",
                       "ClickFailedAndDialogDidNotAppear: ClickTimeout"}

\* C16: in executeWithDialog, executeStepWithDialog and the dialog-only
\* handleDialog of either handler, a dialog whose type differs from the
\* declared dialogType is neither accepted nor dismissed, and the operation
\* ends with the type-mismatch error.
C16_DialogKindMismatch ==
  ( /\ dv \in {"executeWithDialog", "executeStepWithDialog", "handleDialog",
               "handleDialog_refactored"}
    /\ dialogPromise = "got"
    /\ ~TypeMatches )
  => /\ dialog = "open"
     /\ dout \in {"running", "DialogTypeMismatch"}

\* C25: a prompt resolved with the declared action accept is answered with
\* the declared value, the empty string when none is declared; an alert or
\* confirm, and a dismissed dialog, are given no text.
C25_PromptValue ==
  dialog \in {"accepted", "dismissed"} /\ dialogPromise = "got" =>
    promptText = IF dialog = "accepted" /\ dpage.type = "prompt"
                 THEN (IF dialogStep.value = "undefined" THEN "" ELSE dialogStep.value)
                 ELSE "none"

\* C24: in the submit phase a click sub-step followed by a dialog sub-step
\* runs the dialog protocol: a dialog wait has been registered when the
\* click is issued, the click's completion is never awaited while its
\* dialog is open, and the submit raises no error of its own, so that a
\* dialog of the declared type that holds the click is observed and the
\* submit does not fail on it.
C24_SubmitUsesDialogProtocol ==
  dv \in {"executeSubmit", "executeSubmit_refactored"} =>
    /\ clickPromise # "none" => dialogPromise # "none"
    /\ CurStep = "awaitClick" => dialog # "open"
    /\ dout # "TypeError"
    /\ (dpage.opens /\ dpage.blocks /\ TypeMatches /\ dialogPromise = "got")
         => dout \in {"running", "ok"}

MultiDialogVariants == {"executeStepWithMultipleDialogs", "executeWithMultipleDialogs"}

\* C17: the multi-dialog protocol always terminates: it returns or throws.
C17_MultiDialogTerminates ==
  <>(dv \in MultiDialogVariants => dout # "running")

\* C18: when the multi-dialog protocol has returned or thrown, on whatever
\* path, the standing dialog handler it registered has been removed from
\* the page.
C18_ListenerReleased ==
  (dv \in MultiDialogVariants /\ dout # "running") => ~dialogHandlerOn

\* The multi-dialog protocol has thrown the count-mismatch error after its
\* handler was registered and the click completed without a dialog.
C18_Witness ==
  /\ dv \in MultiDialogVariants
  /\ dout = "DialogCountMismatch"
  /\ clickPromise = "done"
  /\ dialogCount = 0
  /\ ~dialogHandlerOn

(***************************************************************************)
(* The select step: SelectActionExecutor.execute and SelectAction.execute  *)
(* (ActionHandler.handleSelect has the body of SelectAction.execute).      *)
(* A step value is a YAML scalar: a string, or a number written "#n".      *)
(***************************************************************************)
MaxOptions == 2      \* options of the select control

SelectVariants == {"SelectActionExecutor", "SelectAction"}

OptionPool == {[value |-> "a", label |-> "A"], [value |-> "1", label |-> "One"],
               [value |-> "0", label |-> "Zero"]}

SelectStepValues == {"a", "0", "1", "#0", "#1", "#2", "A", "One"}

SelectByMethods == {"value", "label", "index", "text"}

NaN == -1

\* parseInt(value)
ParseInt(v) ==
  CASE v \in {"0", "#0"} -> 0
    [] v \in {"1", "#1"} -> 1
    [] v = "#2" -> 2
    [] OTHER -> NaN

\* First position of an option whose value or label (as the fields name) is
\* v, 0 if none.
FirstOption(opts, fields, v) ==
  IF \E k \in 1..Len(opts) : \E f \in fields : opts[k][f] = v
  THEN CHOOSE k \in 1..Len(opts) :
         /\ \E f \in fields : opts[k][f] = v
         /\ \A j \in 1..(k - 1) : \A f \in fields : opts[j][f] # v
  ELSE 0

\* element.selectOption(...): the position of the option selected, 0 when no
\* option matches (the call then fails).  Numbers match neither value nor
\* label.
SelectOption(opts, selectBy, v) ==
  CASE selectBy = "value" -> FirstOption(opts, {"value"}, v)
    [] selectBy = "label" -> FirstOption(opts, {"label"}, v)
    [] selectBy = "index" ->
         IF ParseInt(v) # NaN /\ ParseInt(v) + 1 <= Len(opts) THEN ParseInt(v) + 1 ELSE 0
    [] OTHER -> FirstOption(opts, {"value", "label"}, v)

\* The verification after the selection: does it report a mismatch?
SelectMismatch(variant, step, actual) ==
  IF ~step.verifyValue THEN FALSE
  ELSE IF variant = "SelectActionExecutor" THEN actual # step.value
  ELSE step.selectBy = "value" /\ actual # step.value

\* One execution of the select step.
ApplySelect ==
  /\ selVariant # "none"
  /\ ~selDone
  /\ selDone' = TRUE
  /\ IF selVariant = "SelectActionExecutor" /\ selStep.selectBy \notin {"value", "label", "index"}
     THEN /\ selErr' = "UnknownSelectBy"
          /\ selValue' = selValue
     ELSE LET k == SelectOption(selOptions, selStep.selectBy, selStep.value)
          IN  IF k = 0
              THEN /\ selErr' = "OptionNotFound"
                   /\ selValue' = selValue
              ELSE /\ selValue' = selOptions[k].value
                   /\ selErr' = IF SelectMismatch(selVariant, selStep, selOptions[k].value)
                                THEN "SelectValueMismatch" ELSE "none"
  /\ UNCHANGED <<nonSelVars, selVariant, selStep, selOptions>>

InitSelect ==
  /\ MulIdle
  /\ ClkIdle
  /\ WalkIdle
  /\ RunIdle
  /\ BoxIdle
  /\ DlgIdle
  /\ cfg \in {c \in RunConfigs : \A f \in DOMAIN c : ~c[f]}
  /\ selVariant \in SelectVariants
  /\ selStep \in [selectBy : SelectByMethods, value : SelectStepValues,
                  verifyValue : BOOLEAN]
  /\ selOptions \in SeqsUpTo(OptionPool, MaxOptions)
  /\ selValue = selOptions[1].value
  /\ selErr = "none"
  /\ selDone = FALSE

NextSelect == ApplySelect

SpecSelect == InitSelect /\ [][NextSelect]_vars

\* C11: a select step by index whose index is within range leaves the
\* control with the value of the option at that index, and with
\* verification enabled it succeeds, the value read back being that of the
\* option addressed.
C11_SelectByIndexRoundTrip ==
  ( /\ selDone
    /\ selStep.selectBy = "index"
    /\ ParseInt(selStep.value) # NaN
    /\ ParseInt(selStep.value) < Len(selOptions) )
  => /\ selValue = selOptions[ParseInt(selStep.value) + 1].value
     /\ selErr = "none"

(***************************************************************************)
(* The click step: findElement (ElementLocator.findElement of the          *)
(* refactored handler, ActionHandler.findElement of the older one) and     *)
(* the click executors with their navigation wait.                         *)
(***************************************************************************)
ClickVariants == {"ClickActionExecutor", "ClickAction", "handleClick"}

\* selector.by as a step can carry it; "undefined" is a selector without by.
SelectorStrategies == {"id", "name", "css", "xpath", "button", "text", "undefined"}

\* The cases of findElement's switch.
SwitchCases(loc) ==
  IF loc = "ElementLocator" THEN {"css", "xpath", "name", "button", "id"}
  ELSE {"id", "name", "css", "xpath"}

\* The click+dialog pair of the steps, seen from the page's navigation:
\* ActionHandler.executeStepWithDialog and the refactored handler's
\* executeStepWithDialog with DialogOrchestrator.executeWithDialog.
PairVariants == {"executeStepWithDialog", "executeWithDialog"}

\* The executor's statements after findElement.  In a pair "click" stands for
\* the click together with the resolution of the dialog it opened.
ClickScript(impl, step) ==
  IF impl = "executeWithDialog"
  THEN (IF step.dialogWaitForNavigation THEN <<"click", "loadState">> ELSE <<"click">>)
  ELSE IF impl = "executeStepWithDialog"
  THEN (IF step.waitForNavigation \/ step.dialogWaitForNavigation
        THEN <<"click", "armNav", "awaitNav">> ELSE <<"click">>)
  ELSE IF ~step.waitForNavigation THEN <<"click">>
  ELSE IF impl = "ClickActionExecutor" THEN <<"armNav", "click", "awaitNav">>
  ELSE <<"click", "armNav", "awaitNav">>

ClickAt == IF cout = "running" /\ cpc >= 1 THEN ClickScript(clickImpl, clickStep)[cpc]
           ELSE IF cout = "running" THEN "find" ELSE "end"

ClickProceed ==
  /\ cpc' = cpc + 1
  /\ cout' = IF cpc = Len(ClickScript(clickImpl, clickStep)) THEN "ok" ELSE cout

\* findElement(selector): the switch on selector.by (ElementLocator reads
\* selector.by || 'css'), then the wait for the element.
LocatorFindElement ==
  /\ ClickAt = "find"
  /\ LET by == IF locator = "ElementLocator" /\ clickStep.by = "undefined"
               THEN "css" ELSE clickStep.by
     IN  IF by \notin SwitchCases(locator)
         THEN cout' = "UnknownSelectorType" /\ UNCHANGED <<cpc, elementWait>>
         ELSE /\ elementWait' = TRUE
              /\ IF clickPage.present
                 THEN ClickProceed
                 ELSE cout' = "ElementNotFound" /\ UNCHANGED cpc
  /\ UNCHANGED <<nonClkVars, postWaited, locator, clickImpl, clickStep, clickPage, navWait, clicked>>

\* page.waitForNavigation(...) is called.  A navigation that the click has
\* already started is seen by this wait only if it has not committed yet.
ArmNavigationWait ==
  /\ ClickAt = "armNav"
  /\ \E inTime \in BOOLEAN :
       navWait' = IF clicked /\ clickPage.navigates /\ inTime THEN "observed" ELSE "armed"
  /\ ClickProceed
  /\ UNCHANGED <<nonClkVars, postWaited, locator, clickImpl, clickStep, clickPage, elementWait, clicked>>

\* element.click(): the page's click handler runs during the dispatch.
ElementClick ==
  /\ ClickAt = "click"
  /\ clicked' = TRUE
  /\ navWait' = IF navWait = "armed" /\ clickPage.navigates THEN "observed" ELSE navWait
  /\ ClickProceed
  /\ UNCHANGED <<nonClkVars, postWaited, locator, clickImpl, clickStep, clickPage, elementWait>>

\* page.waitForLoadState("domcontentloaded") after the dialog was resolved:
\* it waits for the new document if the navigation has begun, and returns at
\* once on the old document if it has not.
WaitForLoadState ==
  /\ ClickAt = "loadState"
  /\ \E begun \in BOOLEAN :
       navWait' = IF clickPage.navigates /\ begun THEN "observed" ELSE navWait
  /\ ClickProceed
  /\ UNCHANGED <<nonClkVars, postWaited, locator, clickImpl, clickStep, clickPage, elementWait,
                 clicked>>

\* await of the navigation wait: it resolves, or times out; then
\* if (postNavigationWait) await this.wait(postNavigationWait).
AwaitNavigation ==
  /\ ClickAt = "awaitNav"
  /\ IF navWait = "observed"
     THEN ClickProceed /\ postWaited' = clickStep.postNavigationWait
     ELSE cout' = "NavigationTimeout" /\ UNCHANGED <<cpc, postWaited>>
  /\ UNCHANGED <<nonClkVars, locator, clickImpl, clickStep, clickPage, elementWait, navWait,
                 clicked>>

InitClick ==
  /\ MulIdle
  /\ WalkIdle
  /\ RunIdle
  /\ BoxIdle
  /\ DlgIdle
  /\ SelIdle
  /\ cfg \in {c \in RunConfigs : \A f \in DOMAIN c : ~c[f]}
  /\ locator \in {"ElementLocator", "ActionHandler"}
  /\ clickImpl \in ClickVariants \cup PairVariants
  /\ clickStep \in [by : SelectorStrategies, waitForNavigation : BOOLEAN,
                    dialogWaitForNavigation : BOOLEAN, postNavigationWait : BOOLEAN]
  /\ clickImpl \in ClickVariants =>
       (~clickStep.dialogWaitForNavigation /\ ~clickStep.postNavigationWait)
  /\ clickPage \in [present : BOOLEAN, navigates : BOOLEAN]
  /\ cpc = 0
  /\ cout = "running"
  /\ elementWait = FALSE
  /\ navWait = "none"
  /\ clicked = FALSE
  /\ postWaited = FALSE

NextClick ==
  \/ LocatorFindElement
  \/ ArmNavigationWait
  \/ ElementClick
  \/ WaitForLoadState
  \/ AwaitNavigation

SpecClick == InitClick /\ [][NextClick]_vars

\* C19: in every click executor, when the step declares waitForNavigation,
\* the navigation wait is armed before the click has run to completion, and
\* a navigation that the click starts is always observed by the wait.
C19_ClickNavigationAtomic ==
  (clickImpl \in ClickVariants /\ clickStep.waitForNavigation /\ clicked)
  => /\ navWait # "none"
     /\ (clickPage.navigates /\ cout # "running") => cout = "ok"

\* C20: findElement accepts exactly the strategies id, name, css and xpath;
\* for any other value of selector.by, a missing one included, it fails with
\* the unknown-selector error and no element wait is started.
C20_ClosedSelectorStrategies ==
  /\ (cpc >= 1 \/ elementWait) => clickStep.by \in {"id", "name", "css", "xpath"}
  /\ (cout # "running" /\ clickStep.by \notin {"id", "name", "css", "xpath"})
       => (cout = "UnknownSelectorType" /\ ~elementWait)

\* C26: when the click step or the dialog step of a pair declares
\* waitForNavigation, the pair returns only after the navigation wait has
\* seen the navigation, with the declared postNavigationWait applied; a
\* navigation that resolving the dialog starts is never missed by the wait.
C26_NavigationAfterDialog ==
  ( /\ clickImpl \in PairVariants
    /\ (clickStep.waitForNavigation \/ clickStep.dialogWaitForNavigation)
    /\ clicked
    /\ cout # "running" )
  => /\ cout = "ok" => navWait = "observed"
     /\ cout = "ok" => postWaited = clickStep.postNavigationWait
     /\ clickPage.navigates => cout = "ok"

(***************************************************************************)
(* The multi-dialog flows: one click, several declared dialogs.            *)
(***************************************************************************)
MaxDialogs == 2    \* declared dialog steps per click; the page opens up to one more

\* const totalDialogs = dialogSteps.length
totalDialogs == Len(dialogConfigs)

\* The dialog listener: the page opens its next dialog (dialogs are modal, so
\* only once the previous one is closed) and the listener runs up to its first
\* await: it takes dialogSteps[dialogCount], increments dialogCount, checks the
\* type (a throw inside the listener leaves the dialog open) and, in
\* ActionHandler, issues accept / dismiss at once; DialogOrchestrator first
\* awaits the dialog screenshot.  off = 0 in the code.
HandlerRuns(off) ==
  /\ mulHandlerOn
  /\ mulClick = IF mulPage.blocks THEN "pending" ELSE mulClick
  /\ mulClick # "none"
  /\ Len(events) < Len(mulPage.dialogs)
  /\ \A k \in 1..Len(events) : events[k].res \in {"accepted", "dismissed"}
  /\ LET type == mulPage.dialogs[Len(events) + 1]
         idx == handled + 1 + off
         known == idx <= totalDialogs
         matches == known /\ dialogConfigs[idx].dialogType \in {"", type}
         resolved == IF dialogConfigs[idx].action = "accept" THEN "accepted" ELSE "dismissed"
     IN  IF mulImpl = "executeStepWithMultipleDialogs" /\ handled >= totalDialogs
         THEN /\ events' = Append(events, [type |-> type, config |-> 0, res |-> "accepted"])
              /\ UNCHANGED handled
         ELSE /\ handled' = handled + 1
              /\ events' = Append(events,
                   [type |-> type, config |-> idx,
                    res |-> IF ~matches THEN "open"
                            ELSE IF mulImpl = "executeWithMultipleDialogs" THEN "capturing"
                            ELSE resolved])
  /\ UNCHANGED <<nonMulVars, mulImpl, dialogConfigs, mulPage, mulClick, mulWait, mulHandlerOn,
                 mulOut>>

DialogHandler_IncrementsFirst ==
  HandlerRuns(1)

DialogHandler ==
  HandlerRuns(0)

\* DialogOrchestrator's listener after its awaited screenshot:
\* await dialog.accept() / dialog.dismiss() with the config taken at the start.
\* It runs on even when the flow has returned meanwhile.
HandlerResolves ==
  /\ \E k \in 1..Len(events) :
       /\ events[k].res = "capturing"
       /\ events' = [events EXCEPT ![k].res =
            IF dialogConfigs[events[k].config].action = "accept" THEN "accepted" ELSE "dismissed"]
  /\ UNCHANGED <<nonMulVars, mulImpl, dialogConfigs, mulPage, handled, mulClick, mulWait,
                 mulHandlerOn, mulOut>>

\* page.on("dialog", dialogHandler); findElement; the click is issued.
RegisterAndClick ==
  /\ mulOut = "running"
  /\ mulClick = "none"
  /\ mulHandlerOn' = TRUE
  /\ mulClick' = "pending"
  /\ UNCHANGED <<nonMulVars, mulImpl, dialogConfigs, mulPage, events, handled, mulWait, mulOut>>

\* await element.click(): a click whose handler opens the dialogs itself
\* returns when they are all closed, and times out when one stays open
\* (finally: page.off); a click that only schedules them returns at once.
ClickReturns ==
  /\ mulClick = "pending"
  /\ IF ~mulPage.blocks
     THEN mulClick' = "done" /\ UNCHANGED <<mulOut, mulHandlerOn>>
     ELSE IF \E k \in 1..Len(events) : events[k].res = "open"
     THEN mulClick' = "timeout" /\ mulOut' = "ClickTimeout" /\ mulHandlerOn' = FALSE
     ELSE /\ Len(events) = Len(mulPage.dialogs)
          /\ \A k \in 1..Len(events) : events[k].res \in {"accepted", "dismissed"}
          /\ mulClick' = "done"
          /\ UNCHANGED <<mulOut, mulHandlerOn>>
  /\ UNCHANGED <<nonMulVars, mulImpl, dialogConfigs, mulPage, events, handled, mulWait>>

\* ActionHandler: while (dialogCount < totalDialogs && elapsed < maxWaitTime)
\* wait(100); if (dialogCount < totalDialogs) throw; finally page.off.
\* DialogOrchestrator: while (dialogCount < totalDialogs) waitForTimeout(100),
\* with no bound: the round that finds the count short only sleeps again.
WaitAllHandled ==
  /\ mulOut = "running"
  /\ mulClick = "done"
  /\ IF handled >= totalDialogs
     THEN mulOut' = "ok" /\ mulHandlerOn' = FALSE /\ UNCHANGED mulWait
     ELSE /\ mulImpl = "executeStepWithMultipleDialogs"
          /\ IF mulWait > 0
             THEN mulWait' = mulWait - 1 /\ UNCHANGED <<mulOut, mulHandlerOn>>
             ELSE mulOut' = "DialogCountMismatch" /\ mulHandlerOn' = FALSE /\ UNCHANGED mulWait
  /\ UNCHANGED <<nonMulVars, mulImpl, dialogConfigs, mulPage, events, handled, mulClick>>

InitMulti ==
  /\ WalkIdle
  /\ RunIdle
  /\ BoxIdle
  /\ DlgIdle
  /\ SelIdle
  /\ ClkIdle
  /\ cfg \in {c \in RunConfigs : \A f \in DOMAIN c : ~c[f]}
  /\ mulImpl \in MultiDialogVariants
  /\ \E n \in 1..MaxDialogs :
       dialogConfigs \in [1..n -> [dialogType : {"", "confirm"}, action : {"accept", "dismiss"}]]
  /\ \E n \in 0..(MaxDialogs + 1) :
       mulPage \in [dialogs : [1..n -> {"alert", "confirm"}], blocks : BOOLEAN]
  /\ events = <<>>
  /\ handled = 0
  /\ mulClick = "none"
  /\ mulWait = TimeoutTicks
  /\ mulHandlerOn = FALSE
  /\ mulOut = "running"

NextMulti ==
  \/ RegisterAndClick
  \/ DialogHandler
  \/ HandlerResolves
  \/ ClickReturns
  \/ WaitAllHandled

SpecMulti == InitMulti /\ [][NextMulti]_vars

\* C27: in the multi-dialog flows the k-th dialog event is checked against
\* and resolved with the k-th declared dialog step, for every k up to the
\* declared count; no declared step is used twice or skipped, whatever the
\* interleaving of the listener's runs with the click and the poll.
C27_MultiDialogOrder ==
  /\ \A k \in 1..Len(events) :
       k <= totalDialogs =>
         /\ events[k].config = k
         /\ events[k].res \in {"accepted", "dismissed"} =>
              events[k].res = IF dialogConfigs[k].action = "accept"
                              THEN "accepted" ELSE "dismissed"
  /\ \A j, k \in 1..Len(events) :
       (j # k /\ events[j].config # 0) => events[j].config # events[k].config
  /\ handled <= Len(events)

C27_Witness ==
  /\ totalDialogs = 2
  /\ Len(events) = 2
  /\ events[1].res = "accepted"
  /\ events[2].res = "dismissed"
  /\ mulOut = "ok"

\* C28: a multi-dialog flow returns successfully only if each of the declared
\* dialogs was observed with a matching type and its accept or dismiss has
\* completed; a dialog of another type makes the flow fail.
C28_MultiDialogSuccess ==
  mulOut = "ok" =>
    \A k \in 1..totalDialogs :
      /\ k <= Len(events)
      /\ dialogConfigs[k].dialogType \in {"", events[k].type}
      /\ events[k].res \in {"accepted", "dismissed"}

(***************************************************************************)
(* Properties of the later claims over the components above.               *)
(***************************************************************************)

\* C31: after a checkbox step with the declared boolean value v has completed
\* without error, on a page that keeps the control's state (it does not
\* reload, or the reloaded page renders v), the control's checked state
\* equals v, for either initial state and with or without waitForNavigation.
C31_CheckboxPostcondition ==
  ( /\ applied >= 1
    /\ boxErr = "none"
    /\ boxStep.value \in {"true", "false"}
    /\ (boxPage.onChange = "stay" \/ boxPage.rendered = (boxStep.value = "true")) )
  => boxChecked = (boxStep.value = "true")

\* C32: a step or submit step of a kind the engine does not know makes
\* executeStep / executeSubmit fail with an error and performs no action on
\* the page; the test never continues past it.
C32_UnknownKindsFail ==
  /\ \A k \in 1..Len(calls) :
       (calls[k].op = "executeStep" /\ scenario.steps[calls[k].at] = "hover") => ~calls[k].ok
  /\ scenario.submitStep.type = "hover" =>
       /\ effects.pageActs = 0
       /\ rpc \notin {"postSubmitWait", "afterSubmit", "assert"}
       /\ testResult.status # "passed"

\* C33: at any moment at most one runner invocation is in progress, the one
\* of the innermost activation of executeYamlTestNode, whose callers are its
\* ancestors waiting in their child loops; when a node's invocation starts,
\* every node run before it that is not one of its ancestors has returned
\* from executeYamlTestNode, together with its whole sub-tree.
C33_SequentialRunners ==
  /\ \A i \in 1..Len(stack) :
       /\ stack[i].pc = "test" => i = Len(stack)
       /\ parentOf[stack[i].node] = IF i = 1 THEN 0 ELSE stack[i - 1].node
       /\ stack[i].pc = "test" => ~Executed(stack[i].node)
  /\ \A i \in 1..Len(execLog) :
       LET m == execLog[i].node
       IN  /\ OnStack(m) \/ returned[m] # "none"
           /\ returned[m] # "none" =>
                \A d \in Subtree(m) : Executed(d) => (~OnStack(d) /\ returned[d] # "none")

C33_Witness ==
  /\ Len(stack) = 2
  /\ Top.pc = "test"
  /\ \E i \in 1..Len(execLog) :
       /\ ~OnStack(execLog[i].node)
       /\ returned[execLog[i].node] = "true"

\* C34: an entry of the result list is never removed or changed once it is
\* there, except that the walker's catch may add failure screenshots to the
\* entry of the very node whose runner invocation has just thrown.
C34_ResultsFrozen ==
  [][ /\ Len(testResults') >= Len(testResults)
      /\ \A i \in 1..Len(testResults) :
           testResults'[i] # testResults[i] =>
             ( /\ execLog' # execLog
               /\ Last(execLog').threw
               /\ testResults[i].node = Last(execLog').node
               /\ [testResults'[i] EXCEPT !.shots = testResults[i].shots] = testResults[i] )
    ]_vars

\* C35: once the click+dialog coordinator has exited, neither of the
\* operations it started fails unobserved: a click that has timed out was
\* awaited and reported by the coordinator, and so was a dialog wait that
\* has expired.
C35_NoDanglingOperation ==
  (dv \in {"executeWithDialog", "executeStepWithDialog"} /\ dout \notin {"running", "idle"}) =>
    /\ clickPromise = "timedout" =>
         dout \in {"ClickTimeout", "ClickFailedAndDialogDidNotAppear: ClickTimeout"}
    /\ dialogPromise = "expired" =>
         dout \in {"DialogTimeout",
                   "ClickFailedAndDialogDidNotAppear: ExpectedDialogDidNotAppear",
                   "ClickFailedAndDialogDidNotAppear: ClickTimeout"}

\* C36: for every test that has failed, the result list holds the runner's
\* own TestResult of that node: a failed entry of the node that carries the
\* runner's hierarchyLevel, the node's depth, whatever stopOnFailure is.
C36_FailedResultsKeepData ==
  \A i \in 1..Len(execLog) :
    ~execLog[i].passed =>
      \E j \in 1..Len(testResults) :
        /\ testResults[j].node = execLog[i].node
        /\ testResults[j].status = "failed"
        /\ testResults[j].hierarchyLevel =
             Cardinality({a \in Nodes : IsAncestor(a, execLog[i].node)})

\* C37: at every moment of a runner invocation result.steps is the list
\* 1..k of the indices of the steps completed so far, each once and in
\* ascending order; a failing step or click+dialog pair adds no record, and
\* on a passed test k is the number of declared steps.
C37_StepRecordsPrefix ==
  /\ testResult.steps = [k \in 1..Len(testResult.steps) |-> k]
  /\ Len(testResult.steps) = si
  /\ \A k \in 1..Len(testResult.steps) :
       \E c \in 1..Len(calls) : calls[c].ok /\ k \in {calls[c].at, calls[c].with}
  /\ \A c \in 1..Len(calls) :
       IF calls[c].ok
       THEN /\ calls[c].at <= Len(testResult.steps)
            /\ calls[c].with <= Len(testResult.steps)
       ELSE calls[c].at = Len(testResult.steps) + 1
  /\ testResult.status = "passed" => Len(testResult.steps) = Len(scenario.steps)

C37_Witness ==
  /\ testResult.status = "failed"
  /\ Len(testResult.steps) = 2
  /\ Len(calls) = 2
  /\ calls[1].op = "executeStepWithDialog"
  /\ ~calls[2].ok

\* C38: the entries of the result list appear in the order in which the walk
\* visits the nodes, no node twice: a parent's entry precedes the entries of
\* all its descendants, the entries of a sub-tree are contiguous, and the
\* entries of siblings appear in declared order.
C38_ResultOrderPreOrder ==
  \A i, j \in 1..Len(testResults) :
    LET a == testResults[i].node
        b == testResults[j].node
    IN  /\ i < j => (a # b /\ Executed(a) /\ Executed(b) /\ Pos(a) < Pos(b))
        /\ IsAncestor(a, b) => i < j
        /\ (i < j /\ parentOf[a] = parentOf[b]) => a < b
        /\ \A n \in Nodes :
             (i < j /\ a \in Subtree(n) /\ b \in Subtree(n)) =>
               \A k \in i..j : testResults[k].node \in Subtree(n)

C38_Witness ==
  /\ parentOf = <<0, 1, 1>>
  /\ Len(testResults) = 3
  /\ phase = "reported"

\* ReportGenerator.generate: the summary computed from the result list
ReportGenerator_generate(results) ==
  [ totalTests |-> Len(results),
    passed     |-> Cardinality({j \in 1..Len(results) : results[j].status = "passed"}),
    failed     |-> Cardinality({j \in 1..Len(results) : results[j].status = "failed"}) ]

\* C39: every entry of the result list has status passed or failed, an entry
\* with status pending is never appended, and at report time the summary's
\* passed and failed counts add up to the number of entries.
C39_TerminalStatusOnly ==
  /\ \A j \in 1..Len(testResults) : testResults[j].status \in {"passed", "failed"}
  /\ phase = "reported" =>
       LET summary == ReportGenerator_generate(testResults)
       IN  summary.passed + summary.failed = summary.totalTests

\* A report over a passed entry, a failed entry returned by the runner and a
\* failed entry written by the walker's catch
C39_Witness ==
  /\ phase = "reported"
  /\ \E i, j, k \in 1..Len(testResults) :
       /\ testResults[i].status = "passed"
       /\ testResults[j].status = "failed" /\ testResults[j].hierarchyLevel >= 0
       /\ testResults[k].status = "failed" /\ testResults[k].hierarchyLevel = -1

====
